---------------------------- MODULE Spec2Model ----------------------------
(***************************************************************************)
(* SONLab FRET tool: the bleed-through calibration tabs (bt_tab.py), the   *)
(* main window that wires them to the FRET tab (main_gui.py) and the FRET  *)
(* analysis pipeline of FretTab (fret_tab.py).                             *)
(*                                                                         *)
(* Numbers.  numpy computes in binary floating point; the model computes   *)
(* the same expressions in exact rational arithmetic (a rational is a pair *)
(* <<numerator, denominator>> in lowest terms, denominator > 0).  An image *)
(* is one row of pixels, a sequence indexed by column; scipy's 'reflect'   *)
(* boundary makes every k x k window over a one-row image the k-column     *)
(* window over that row.                                                   *)
(***************************************************************************)
EXTENDS Integers, Sequences, FiniteSets, TLC

VARIABLES
    tabs,       \* channel -> AnalysisChannelTab state (bt_tab.py)
    fret,       \* FretTab state (fret_tab.py)
    widgets,    \* FretTab settings widgets read by run_analysis
    files,      \* path -> content of the image file on disk
    table,      \* rows of FretTab.aggregate_stats_table
    trace,      \* locals of the last FretTab.run_analysis, per processed image
    call,       \* arguments and result of a function called on its own
    seg,        \* CellposeSegmentationTab and its BatchWorker (cellpose_segmentation_tab.py)
    config      \* ConfigManager and its configuration file (config_manager.py)

vars == <<tabs, fret, widgets, files, table, trace, call, seg, config>>

None == "None"

-----------------------------------------------------------------------------
(* Exact rational arithmetic *)

Abs(x) == IF x < 0 THEN -x ELSE x

RECURSIVE GCD(_, _)
GCD(a, b) == IF b = 0 THEN a ELSE GCD(b, a % b)

Rat(n, d) ==
    IF n = 0 THEN <<0, 1>>
    ELSE LET s == IF d < 0 THEN -1 ELSE 1
             g == GCD(Abs(n), Abs(d))
         IN  <<(s * n) \div g, (s * d) \div g>>

RInt(i) == <<i, 1>>
RZero == <<0, 1>>
RAdd(a, b) == Rat(a[1] * b[2] + b[1] * a[2], a[2] * b[2])
RSub(a, b) == Rat(a[1] * b[2] - b[1] * a[2], a[2] * b[2])
RMul(a, b) == Rat(a[1] * b[1], a[2] * b[2])
RDiv(a, b) == Rat(a[1] * b[2], a[2] * b[1])
RLt(a, b) == a[1] * b[2] < b[1] * a[2]
RLe(a, b) == a[1] * b[2] <= b[1] * a[2]
RGt(a, b) == RLt(b, a)
RGe(a, b) == RLe(b, a)
RMax0(a) == IF a[1] < 0 THEN RZero ELSE a

\* the exact root of a perfect square (the model's intensities keep
\* donor * acceptor a perfect square)
ISqrt(x) == CHOOSE r \in 0..x : r * r = x

\* the float nan, which no rational operation above is applied to
RNaN == <<0, 0>>

\* np.sqrt: nan for a negative operand
RSqrt(a) == IF a[1] < 0 THEN RNaN ELSE <<ISqrt(a[1]), ISqrt(a[2])>>

RECURSIVE RSumSeq(_)
\* the sum of a sequence, by halves, which keeps the recursion shallow for
\* a window of 30 pixels
RSumSeq(s) ==
    IF Len(s) = 0 THEN RZero
    ELSE IF Len(s) = 1 THEN s[1]
    ELSE RAdd(RSumSeq(SubSeq(s, 1, Len(s) \div 2)),
              RSumSeq(SubSeq(s, Len(s) \div 2 + 1, Len(s))))

RECURSIVE SetToSeq(_)
\* the elements of a finite set of integers in ascending order (np.unique)
SetToSeq(S) ==
    IF S = {} THEN <<>>
    ELSE LET m == CHOOSE x \in S : \A y \in S : x <= y
         IN  <<m>> \o SetToSeq(S \ {m})

\* the values of image img at the pixels of P, in column order (img[mask])
Select(img, P) ==
    LET cols == SetToSeq(P)
    IN  [i \in 1..Len(cols) |-> img[cols[i]]]

RMean(s) == RDiv(RSumSeq(s), RInt(Len(s)))

-----------------------------------------------------------------------------
(* scipy.ndimage.uniform_filter(image, size, mode='reflect') on one row *)

\* 'reflect' (d c b a | a b c d | d c b a): column i (0-based) of the
\* extended row, for a row of n pixels
Reflect(i, n) ==
    LET m == i % (2 * n)
    IN  IF m < n THEN m ELSE 2 * n - 1 - m

uniform_filter_ZeroPadded(image, size) ==
    LET n == Len(image)
    IN  [p \in 1..n |->
            RDiv(RSumSeq([j \in 1..size |->
                     LET i == (p - 1) - (size \div 2) + (j - 1)
                     IN  IF i \in 0..(n - 1) THEN image[i + 1] ELSE RZero]),
                 RInt(size))]

\* the window of a filter of the given size is centred with origin 0:
\* columns i - size \div 2 .. i - size \div 2 + size - 1
uniform_filter(image, size) ==
    LET n == Len(image)
    IN  [p \in 1..n |->
            RDiv(RSumSeq([j \in 1..size |->
                     image[Reflect((p - 1) - (size \div 2) + (j - 1), n) + 1]]),
                 RInt(size))]

RMinSeq(s) == CHOOSE x \in {s[i] : i \in 1..Len(s)} :
                  \A i \in 1..Len(s) : RLe(x, s[i])

\* FretTab.subtract_background: (bg_sub, min_mean)
subtract_background(image, kernel_size) ==
    LET local_means == uniform_filter(image, kernel_size)
        min_mean == RMinSeq(local_means)
    IN  [bg_sub |-> [p \in 1..Len(image) |-> RMax0(RSub(image[p], min_mean))],
         min_mean |-> min_mean]

\* bt_calculation.subtract_background: the local means are those of image,
\* their minimum is subtracted from image2
bt_subtract_background(image2, image, kernel_size) ==
    LET local_means == uniform_filter(image, kernel_size)
        min_mean == RMinSeq(local_means)
    IN  [p \in 1..Len(image2) |-> RMax0(RSub(image2[p], min_mean))]

-----------------------------------------------------------------------------
(* Image files and FretTab.load_and_prepare_image *)

Pixels(image) == 1..Len(image)
ToFloat(frame) == [p \in 1..Len(frame) |-> RInt(frame[p])]

RECURSIVE Pow2(_)
Pow2(n) == IF n = 0 THEN 1 ELSE 2 * Pow2(n - 1)

\* np.exp(-k * x) for a decay constant k = k2 * ln 2, which keeps the value
\* rational: 2 ^ (-k2 * x).  The model's fits carry k2 in the place of k.
ExpNeg(k2, x) ==
    LET e == RMul(k2, x)
    IN  Rat(1, Pow2(e[1] \div e[2]))

apply_correction_LinearNoIntercept(image, model, coeffs) ==
    IF model = "Constant"
    THEN [p \in Pixels(image) |-> RMul(image[p], coeffs)]
    ELSE IF model = "Linear"
    THEN [p \in Pixels(image) |-> RMul(image[p], RMul(coeffs[1], image[p]))]
    ELSE [p \in Pixels(image) |-> RZero]

apply_correction(image, model, coeffs) ==
    IF model = "Constant"
    THEN [p \in Pixels(image) |-> RMul(image[p], coeffs)]
    ELSE IF model = "Linear"
    THEN [p \in Pixels(image) |->
             RMul(image[p], RAdd(RMul(coeffs[1], image[p]), coeffs[2]))]
    ELSE IF model = "Exponential"
    THEN [p \in Pixels(image) |->
             RMul(image[p],
                  RAdd(RMul(coeffs[1], ExpNeg(coeffs[2], image[p])), coeffs[3]))]
    ELSE [p \in Pixels(image) |-> RZero]

\* A file is [ext, ndim, frames]; frames are rows of integer pixel values.
\* The result's status is "ok", "raise" (ValueError) or "unsupported"
\* (warning, six Nones).  gaussian_blur_spinbox is 0 in the model, so the
\* sigma > 0 branch is not taken.
load_and_prepare_image(file, f, w) ==
    IF file.ext \notin {"czi", "tif"}
    THEN [status |-> "unsupported"]
    ELSE IF file.ndim # 3 \/ Len(file.frames) < 4
    THEN [status |-> "raise"]
    ELSE LET labels == file.frames[1]
             d == subtract_background(ToFloat(file.frames[3]), w.bg_kernel)
             a == subtract_background(ToFloat(file.frames[4]), w.bg_kernel)
             fc == subtract_background(ToFloat(file.frames[2]), w.bg_kernel)
             donor_bleed == apply_correction(d.bg_sub, f.donor_model, f.donor_coeffs)
             acceptor_bleed ==
                 apply_correction(a.bg_sub, f.acceptor_model, f.acceptor_coeffs)
             corrected_fret ==
                 [p \in Pixels(labels) |->
                     RMax0(RSub(RSub(fc.bg_sub[p], donor_bleed[p]), acceptor_bleed[p]))]
         IN  [status |-> "ok", labels |-> labels, fret |-> corrected_fret,
              donor |-> d.bg_sub, acceptor |-> a.bg_sub,
              bg_donor |-> d.min_mean, bg_acceptor |-> a.min_mean,
              donor_bleed |-> donor_bleed, acceptor_bleed |-> acceptor_bleed,
              fret_sub |-> fc.bg_sub]

-----------------------------------------------------------------------------
(* FretTab.calculate_fret_efficiency: np.divide(..., where=denominator != 0) *)

SafeDivide_Unguarded(num, den) ==
    IF den = RNaN \/ den = RZero THEN RNaN ELSE RDiv(num, den)

\* a nan denominator is != 0, and the quotient by it is nan
SafeDivide(num, den) ==
    IF den = RNaN THEN RNaN
    ELSE IF den # RZero THEN RDiv(num, den) ELSE RZero

\* efficiency * 100
Percent(q) == IF q = RNaN THEN RNaN ELSE RMul(q, RInt(100))

Denominator_AcceptorSquared(f, d, a, formula_name) ==
    CASE formula_name = "FRET/Donor" -> d
      [] formula_name = "FRET/Acceptor" -> RMul(a, a)
      [] formula_name = "Xia" -> RSqrt(RMul(d, a))
      [] formula_name = "Gordon" -> RMul(d, a)
      [] formula_name = "PixFRET" -> RAdd(d, f)

Denominator(f, d, a, formula_name) ==
    CASE formula_name = "FRET/Donor" -> d
      [] formula_name = "FRET/Acceptor" -> a
      [] formula_name = "Xia" -> RSqrt(RMul(d, a))
      [] formula_name = "Gordon" -> RMul(d, a)
      [] formula_name = "PixFRET" -> RAdd(d, f)

calculate_fret_efficiency(f, d, a, formula_name) ==
    [p \in Pixels(f) |->
        IF formula_name \in {"FRET/Donor", "FRET/Acceptor", "Xia", "Gordon", "PixFRET"}
        THEN Percent(SafeDivide(f[p], Denominator(f[p], d[p], a[p], formula_name)))
        ELSE RZero]

-----------------------------------------------------------------------------
(* The inclusion mask of FretTab.run_analysis *)

\* FretTab.pixfret_threshold with use_local_averaging = True.  The two
\* square roots are compared through their squares (all operands are >= 0).
pixfret_threshold(donor_image, acceptor_image, bg_donor, bg_acceptor, threshold_factor) ==
    LET donor_sub == [p \in Pixels(donor_image) |-> RMax0(RSub(donor_image[p], bg_donor))]
        acceptor_sub ==
            [p \in Pixels(donor_image) |-> RMax0(RSub(acceptor_image[p], bg_acceptor))]
        donor_local == uniform_filter(donor_sub, 3)
        acceptor_local == uniform_filter(acceptor_sub, 3)
        donor_threshold == RMul(bg_donor, threshold_factor)
        acceptor_threshold == RMul(bg_acceptor, threshold_factor)
    IN  [p \in Pixels(donor_image) |->
            /\ RGt(donor_local[p], donor_threshold)
            /\ RGt(acceptor_local[p], acceptor_threshold)
            /\ RGt(RMul(donor_sub[p], acceptor_sub[p]),
                   RMul(RMul(bg_donor, bg_acceptor),
                        RMul(threshold_factor, threshold_factor)))]

\* ratio = np.divide(donor, acceptor, out=zeros, where=acceptor > 0);
\* valid_ratio = (ratio <= ratio_threshold) & (ratio >= 1.0 / ratio_threshold)
valid_ratio_NoLowerBound(donor, acceptor, ratio_threshold) ==
    LET ratio == IF RGt(acceptor, RZero) THEN RDiv(donor, acceptor) ELSE RZero
    IN  RLe(ratio, RInt(ratio_threshold))

valid_ratio(donor, acceptor, ratio_threshold) ==
    LET ratio == IF RGt(acceptor, RZero) THEN RDiv(donor, acceptor) ELSE RZero
    IN  /\ RLe(ratio, RInt(ratio_threshold))
        /\ RGe(ratio, Rat(1, ratio_threshold))

Labels(labels) == {labels[p] : p \in Pixels(labels)}
CellPixels(labels, lbl) == {p \in Pixels(labels) : labels[p] = lbl}
MaskSet(mask) == {p \in Pixels(mask) : mask[p]}

label_mask(labels) == [p \in Pixels(labels) |-> labels[p] > 0]

\* final_mask before the ratio stage (lines 1968-1975)
PixfretStage(prep, w) ==
    IF w.pixfret_checkbox
    THEN LET pixfret_mask ==
                 pixfret_threshold(prep.donor, prep.acceptor, prep.bg_donor,
                                   prep.bg_acceptor, w.pixfret_factor)
         IN  [p \in Pixels(prep.labels) |-> label_mask(prep.labels)[p] /\ pixfret_mask[p]]
    ELSE label_mask(prep.labels)

\* final_mask after the ratio stage (lines 1980-2001), from the mask
\* before it
RatioStage(prep, w, final_mask) ==
    IF w.ratio_threshold > 0
    THEN [p \in Pixels(prep.labels) |->
             final_mask[p] /\ (valid_ratio(prep.donor[p], prep.acceptor[p],
                                           w.ratio_threshold)
                               \/ prep.labels[p] = 0)]
    ELSE label_mask(prep.labels)

RatioExcludedLabels_AnyPixel(prep, w, final_mask) ==
    IF w.ratio_threshold > 0
    THEN {lbl \in Labels(prep.labels) \ {0} :
             \E p \in CellPixels(prep.labels, lbl) : ~final_mask[p]}
    ELSE {}

\* excluded_labels after the ratio stage (lines 1993-1999), from the mask
\* after it
RatioExcludedLabels(prep, w, final_mask) ==
    IF w.ratio_threshold > 0
    THEN {lbl \in Labels(prep.labels) \ {0} :
             \A p \in CellPixels(prep.labels, lbl) : ~final_mask[p]}
    ELSE {}

FormulaOrder == <<"FRET/Donor", "FRET/Acceptor", "Xia", "Gordon", "PixFRET">>
selected_formulas(w) == SelectSeq(FormulaOrder, LAMBDA name : name \in w.formulas)

\* eff_map[~final_mask] = 0
Masked(eff_map, mask) == [p \in Pixels(eff_map) |-> IF mask[p] THEN eff_map[p] ELSE RZero]

ProvisionalMap_LastFormula(prep, w, final_mask) ==
    LET sel == selected_formulas(w)
        formula_for_thresh == IF sel # <<>> THEN sel[Len(sel)] ELSE "FRET/Donor"
    IN  Masked(calculate_fret_efficiency(prep.fret, prep.donor, prep.acceptor,
                                         formula_for_thresh),
               final_mask)

\* temp_eff_map of the cell band (lines 2007-2012)
ProvisionalMap(prep, w, final_mask) ==
    LET sel == selected_formulas(w)
        formula_for_thresh == IF sel # <<>> THEN sel[1] ELSE "FRET/Donor"
    IN  Masked(calculate_fret_efficiency(prep.fret, prep.donor, prep.acceptor,
                                         formula_for_thresh),
               final_mask)

\* vals = eff_map[cell_mask]; vals = vals[isfinite & (vals > 0)]
PositiveVals(eff_map, P) == Select(eff_map, {p \in P : RGt(eff_map[p], RZero)})

BandExcludedLabels_NoUpperBound(prep, w, temp_eff_map, excluded_labels) ==
    IF w.cell_eff_checkbox
    THEN {lbl \in (Labels(prep.labels) \ {0}) \ excluded_labels :
             LET vals == PositiveVals(temp_eff_map, CellPixels(prep.labels, lbl))
             IN  /\ Len(vals) # 0
                 /\ RLt(RMean(vals), w.cell_eff_lower)}
    ELSE {}

\* the cells the band adds to excluded_labels (lines 2015-2026)
BandExcludedLabels(prep, w, temp_eff_map, excluded_labels) ==
    IF w.cell_eff_checkbox
    THEN {lbl \in (Labels(prep.labels) \ {0}) \ excluded_labels :
             LET vals == PositiveVals(temp_eff_map, CellPixels(prep.labels, lbl))
             IN  /\ Len(vals) # 0
                 /\ \/ RLt(RMean(vals), w.cell_eff_lower)
                    \/ RGt(RMean(vals), w.cell_eff_upper)}
    ELSE {}

BandStage_KeepsExcluded(prep, final_mask, band_excluded) ==
    [p \in Pixels(prep.labels) |-> final_mask[p] \/ prep.labels[p] \in band_excluded]

\* final_mask after the cell band (final_mask[cell_mask] = False)
BandStage(prep, final_mask, band_excluded) ==
    [p \in Pixels(prep.labels) |-> final_mask[p] /\ prep.labels[p] \notin band_excluded]

\* one stored map (lines 2029-2042)
StoredMap(prep, w, final_mask, formula_name) ==
    LET eff_map == Masked(calculate_fret_efficiency(prep.fret, prep.donor,
                                                    prep.acceptor, formula_name),
                          final_mask)
    IN  IF RGt(w.lower_threshold, RZero) \/ RLt(w.upper_threshold, RInt(100))
        THEN [p \in Pixels(eff_map) |->
                 IF RLt(eff_map[p], w.lower_threshold) \/ RGt(eff_map[p], w.upper_threshold)
                 THEN RZero ELSE eff_map[p]]
        ELSE eff_map

\* the dictionary stored in analysis_results[file_path] (lines 2042-2052)
Efficiencies(prep, w, final_mask, excluded_labels) ==
    [maps |-> [fn \in w.formulas |-> StoredMap(prep, w, final_mask, fn)],
     labels |-> prep.labels,
     excluded_count |-> Cardinality(excluded_labels),
     f |-> prep.fret, d |-> prep.donor, a |-> prep.acceptor]

\* The body of the loop of run_analysis for one loaded image, in the order
\* of the code.  Each step below computes the locals of one stretch of the
\* body and hands them to the next; the last one returns every local after
\* its last assignment, final_mask after each stage, and the dictionary
\* stored in analysis_results.

\* lines 2042-2052
StoreStep(prep, f, w, pixfret_stage, ratio_stage, ratio_excluded, temp_eff_map, band_excluded, final_mask) ==
    [status |-> "ok",
     donor_model |-> f.donor_model, acceptor_model |-> f.acceptor_model,
     settings |-> w,
     prep |-> prep,
     pixfret_stage |-> pixfret_stage,
     ratio_stage |-> ratio_stage,
     ratio_excluded |-> ratio_excluded,
     temp_eff_map |-> temp_eff_map,
     band_excluded |-> band_excluded,
     final_mask |-> final_mask,
     efficiencies |-> Efficiencies(prep, w, final_mask,
                                   ratio_excluded \cup band_excluded)]

\* lines 2024-2026
MaskStep(prep, f, w, pixfret_stage, ratio_stage, ratio_excluded, temp_eff_map, band_excluded) ==
    StoreStep(prep, f, w, pixfret_stage, ratio_stage, ratio_excluded, temp_eff_map,
              band_excluded, BandStage(prep, ratio_stage, band_excluded))

\* lines 2003-2023
BandStep(prep, f, w, pixfret_stage, ratio_stage, ratio_excluded, temp_eff_map) ==
    MaskStep(prep, f, w, pixfret_stage, ratio_stage, ratio_excluded, temp_eff_map,
             BandExcludedLabels(prep, w, temp_eff_map, ratio_excluded))

\* lines 1993-2012
ExcludedStep(prep, f, w, pixfret_stage, ratio_stage) ==
    BandStep(prep, f, w, pixfret_stage, ratio_stage,
             RatioExcludedLabels(prep, w, ratio_stage),
             IF w.cell_eff_checkbox THEN ProvisionalMap(prep, w, ratio_stage)
             ELSE None)

\* lines 1980-1991 and 2000-2001
RatioStep(prep, f, w, pixfret_stage) ==
    ExcludedStep(prep, f, w, pixfret_stage, RatioStage(prep, w, pixfret_stage))

\* lines 1966-1975
AnalyseImage(prep, f, w) == RatioStep(prep, f, w, PixfretStage(prep, w))

-----------------------------------------------------------------------------
(* FretTab.update_aggregate_stats_table *)

\* one row of the table for a cell (lines 3094-3116); the row keeps the
\* numbers that the table cells display
StatsRow(file_path, lbl, labels_arr, eff_map, lower_thresh, upper_thresh) ==
    LET cell_mask == CellPixels(labels_arr, lbl)
        nz_mask == {p \in cell_mask : RGt(eff_map[p], RZero)}
        nz_vals == Select(eff_map, nz_mask)
        in_thresh_mask == {p \in nz_mask : /\ RGe(eff_map[p], lower_thresh)
                                           /\ RLe(eff_map[p], upper_thresh)}
        in_thresh_vals == Select(eff_map, in_thresh_mask)
        below_thresh == Cardinality({p \in nz_mask : RLt(eff_map[p], lower_thresh)})
        above_thresh == Cardinality({p \in nz_mask : RGt(eff_map[p], upper_thresh)})
        total_pixels == Len(nz_vals)
    IN  [file_path |-> file_path, lbl |-> lbl,
         avg_all |-> IF Len(nz_vals) > 0 THEN RMean(nz_vals) ELSE RZero,
         avg_in_thresh |-> IF Len(in_thresh_vals) > 0 THEN RMean(in_thresh_vals)
                           ELSE RZero,
         percent_below |-> IF total_pixels > 0
                           THEN RMul(Rat(below_thresh, total_pixels), RInt(100))
                           ELSE RZero,
         percent_above |-> IF total_pixels > 0
                           THEN RMul(Rat(above_thresh, total_pixels), RInt(100))
                           ELSE RZero,
         total_pixels |-> total_pixels]

RowLabels_AllCells(labels_arr, eff_map) ==
    {lbl \in Labels(labels_arr) : lbl > 0}

\* the cells of an image that get a row: nz_vals.size = 0 is skipped
RowLabels(labels_arr, eff_map) ==
    {lbl \in Labels(labels_arr) :
        /\ lbl > 0
        /\ \E p \in CellPixels(labels_arr, lbl) : RGt(eff_map[p], RZero)}

ImageRows(file_path, efficiencies, selected_formula, w) ==
    IF selected_formula \notin DOMAIN efficiencies.maps
    THEN <<>>
    ELSE LET eff_map == efficiencies.maps[selected_formula]
             lbls == SetToSeq(RowLabels(efficiencies.labels, eff_map))
         IN  [i \in 1..Len(lbls) |->
                 StatsRow(file_path, lbls[i], efficiencies.labels, eff_map,
                          w.lower_threshold, w.upper_threshold)]

RECURSIVE RowsOf(_, _, _, _)
\* paths is sorted(analysis_results) (a path is the rank of its basename)
RowsOf(paths, results, selected_formula, w) ==
    IF paths = <<>> THEN <<>>
    ELSE ImageRows(Head(paths), results[Head(paths)], selected_formula, w)
         \o RowsOf(Tail(paths), results, selected_formula, w)

update_aggregate_stats_table(results, selected_formula, w) ==
    IF selected_formula = "" \/ DOMAIN results = {}
    THEN <<>>
    ELSE RowsOf(SetToSeq(DOMAIN results), results, selected_formula, w)

-----------------------------------------------------------------------------
(* FretTab.run_analysis *)

\* the three formula combo boxes after an image is stored (lines 2065-2081):
\* the items become selected_formulas, the previous text stays current when
\* it is one of them, else the first item (none when the list is empty)
ComboAfter(current_text, w) ==
    LET sel == selected_formulas(w)
    IN  IF current_text \in w.formulas THEN current_text
        ELSE IF sel # <<>> THEN sel[1] ELSE ""

\* the end of an iteration that stores its image (lines 2052-2085); acc is
\* [results, combo, items, trace] and locals the result of AnalyseImage
StoreImage(file_path, locals, acc, w) ==
    [results |-> (file_path :> locals.efficiencies) @@ acc.results,
     combo |-> ComboAfter(acc.combo, w),
     items |-> w.formulas,
     trace |-> (file_path :> locals) @@ acc.trace]

ProcessImage_ErrorClearsResults(file_path, prep, acc, f, w) ==
    IF prep.status = "raise"
    THEN [acc EXCEPT
            !.results = <<>>,
            !.trace = (file_path :> [status |-> "raise"]) @@ acc.trace]
    ELSE IF prep.status = "unsupported"
    THEN [acc EXCEPT
            !.trace = (file_path :> [status |-> "unsupported"]) @@ acc.trace]
    ELSE StoreImage(file_path, AnalyseImage(prep, f, w), acc, w)

\* one iteration of the loop (lines 1959-2090) on the result prep of
\* load_and_prepare_image
ProcessImage(file_path, prep, acc, f, w) ==
    IF prep.status = "raise"
    THEN [acc EXCEPT
            !.results = [q \in DOMAIN acc.results \ {file_path} |-> acc.results[q]],
            !.trace = (file_path :> [status |-> "raise"]) @@ acc.trace]
    ELSE IF prep.status = "unsupported"
    THEN [acc EXCEPT
            !.trace = (file_path :> [status |-> "unsupported"]) @@ acc.trace]
    ELSE StoreImage(file_path, AnalyseImage(prep, f, w), acc, w)

RECURSIVE ProcessImages(_, _, _, _)
\* the loop over image_paths_to_process
ProcessImages(paths, acc, f, w) ==
    IF paths = <<>> THEN acc
    ELSE ProcessImages(Tail(paths),
                       ProcessImage(Head(paths),
                                    load_and_prepare_image(files[Head(paths)], f, w),
                                    acc, f, w),
                       f, w)

\* the end of run_analysis (lines 2091-2100) on the loop's result
FinishRun(done) ==
    /\ fret' = [fret EXCEPT !.analysis_results = done.results,
                            !.aggregate_formula = done.combo,
                            !.combo_items = done.items,
                            !.run_button = TRUE]
    /\ table' = update_aggregate_stats_table(done.results, done.combo, widgets)
    /\ trace' = done.trace

\* analyze_all is analyze_all_checkbox, current_row the row of the list
\* widget's current item (0: no current item; the row is not read when
\* analyze_all is checked)
FretRunAnalysis(analyze_all, current_row) ==
    /\ fret.run_button /\ fret.tab_enabled
    /\ current_row \in 0..Len(fret.image_paths)
    /\ analyze_all => current_row = 0
    /\ IF fret.image_paths = <<>> \/ (~analyze_all /\ current_row = 0)
       THEN UNCHANGED <<fret, table, trace>>
       ELSE FinishRun(ProcessImages(
                IF analyze_all THEN fret.image_paths
                ELSE <<fret.image_paths[current_row]>>,
                [results |-> IF analyze_all THEN <<>> ELSE fret.analysis_results,
                 combo |-> fret.aggregate_formula,
                 items |-> fret.combo_items,
                 trace |-> <<>>],
                fret, widgets))
    /\ UNCHANGED <<tabs, widgets, files, call, seg, config>>

\* aggregate_formula_combo.currentIndexChanged -> update_aggregate_stats_table
SelectAggregateFormula(formula) ==
    /\ fret.tab_enabled
    /\ fret.analysis_results # <<>>
    /\ formula \in fret.combo_items
    /\ formula # fret.aggregate_formula
    /\ fret' = [fret EXCEPT !.aggregate_formula = formula]
    /\ table' = update_aggregate_stats_table(fret.analysis_results, formula, widgets)
    /\ UNCHANGED <<tabs, widgets, files, call, trace, seg, config>>

\* FretTab.add_image_paths with one dropped or chosen file
FretAddImages(file_path) ==
    /\ file_path \in DOMAIN files
    /\ IF \E i \in 1..Len(fret.image_paths) : fret.image_paths[i] = file_path
       THEN UNCHANGED fret
       ELSE fret' = [fret EXCEPT !.image_paths = Append(@, file_path),
                                 !.list_widget = Append(@, file_path),
                                 !.tab_enabled = TRUE]
    /\ UNCHANGED <<tabs, widgets, files, call, table, trace, seg, config>>

\* FretTab.remove_image with the item of the given row selected
FretRemoveImage(row) ==
    /\ row \in 1..Len(fret.list_widget)
    /\ IF row \in 1..Len(fret.image_paths)
       THEN LET image_path == fret.image_paths[row]
            IN  fret' = [fret EXCEPT
                      !.list_widget = SubSeq(@, 1, row - 1) \o SubSeq(@, row + 1, Len(@)),
                      !.image_paths = SubSeq(@, 1, row - 1) \o SubSeq(@, row + 1, Len(@)),
                      !.analysis_results = [q \in DOMAIN @ \ {image_path} |-> @[q]]]
       \* image_paths.pop(index) raises IndexError after takeItem(index)
       ELSE fret' = [fret EXCEPT
                      !.list_widget = SubSeq(@, 1, row - 1) \o SubSeq(@, row + 1, Len(@))]
    /\ UNCHANGED <<tabs, widgets, files, call, table, trace, seg, config>>

\* FretTab.reset_tab: reset_parameters, then update_tab_state(False)
FretResetTab ==
    /\ fret' = [fret EXCEPT !.donor_model = None, !.donor_coeffs = None,
                            !.acceptor_model = None, !.acceptor_coeffs = None,
                            !.image_paths = <<>>,
                            !.list_widget = <<>>,
                            !.analysis_results = <<>>,
                            !.tab_enabled = FALSE]
    /\ table' = <<>>
    /\ UNCHANGED <<tabs, widgets, files, call, trace, seg, config>>

-----------------------------------------------------------------------------
(* bt_calculation.process_donor_only_samples and
   process_acceptor_only_samples *)

\* subtract_background(image2, image, kernel_size=30)
DefaultKernelSize == 30

\* the frame (counted from 1) the donor tab reads its channel from
DonorFrame(n_frames) == 3

AcceptorFrame_AlwaysThird(n_frames) == 3

\* the frame the acceptor tab reads its channel from (lines 131-140)
AcceptorFrame(n_frames) == IF n_frames = 3 THEN 3 ELSE 4

\* the elements of the row at the pixels where mask_frame is true
MaskedPixels(row, mask_frame) ==
    LET RECURSIVE From(_)
        From(p) == IF p > Len(row) THEN <<>>
                   ELSE IF mask_frame[p] THEN <<row[p]>> \o From(p + 1)
                   ELSE From(p + 1)
    IN  From(1)

\* one iteration of the loop for a stack whose channel is frame
\* channel_frame: (fret_masked, channel_masked).  The blur is that of
\* sigma = 0, which gaussian_filter returns its input for.
MaskedSample(frames, channel_frame) ==
    [fret |-> MaskedPixels(bt_subtract_background(ToFloat(frames[2]), ToFloat(frames[2]),
                                            DefaultKernelSize),
                     [p \in 1..Len(frames[1]) |-> frames[1][p] > 0]),
     channel |-> MaskedPixels(bt_subtract_background(ToFloat(frames[channel_frame]),
                                               ToFloat(frames[channel_frame]),
                                               DefaultKernelSize),
                        [p \in 1..Len(frames[1]) |-> frames[1][p] > 0])]

\* np.divide(fret_combined, channel_combined, out=zeros, where=channel != 0)
\* and the selection S < 1
ValidSamples(fret_combined, channel_combined) ==
    SelectSeq([p \in 1..Len(fret_combined) |->
                  <<channel_combined[p],
                    SafeDivide(fret_combined[p], channel_combined[p])>>],
              LAMBDA pr : RLt(pr[2], RInt(1)))

RECURSIVE SamplesLoop(_, _, _, _)
\* the loop over the paths and the lines after it; an empty list of paths
\* makes np.concatenate raise
SamplesLoop(stacks, acceptor_only, fret_accum, channel_accum) ==
    IF stacks = <<>>
    THEN IF fret_accum = None THEN [status |-> "raise"]
         ELSE [status |-> "ok", pairs |-> ValidSamples(fret_accum, channel_accum)]
    ELSE IF Len(Head(stacks)) \notin {3, 4}
    THEN [status |-> "raise"]
    ELSE SamplesLoop(Tail(stacks), acceptor_only,
                     (IF fret_accum = None THEN <<>> ELSE fret_accum) \o
                         MaskedSample(Head(stacks),
                                      IF acceptor_only THEN AcceptorFrame(Len(Head(stacks)))
                                      ELSE DonorFrame(Len(Head(stacks)))).fret,
                     (IF channel_accum = None THEN <<>> ELSE channel_accum) \o
                         MaskedSample(Head(stacks),
                                      IF acceptor_only THEN AcceptorFrame(Len(Head(stacks)))
                                      ELSE DonorFrame(Len(Head(stacks)))).channel)

process_donor_only_samples(stacks) == SamplesLoop(stacks, FALSE, None, None)

process_acceptor_only_samples(stacks) == SamplesLoop(stacks, TRUE, None, None)

-----------------------------------------------------------------------------
(* bt_calculation.fit_and_plot *)

\* A population is a sequence of pairs <<intensity, ratio>>: x_data[i] and
\* y_data[i] side by side.
Pairs(x_data, y_data) == [i \in 1..Len(x_data) |-> <<x_data[i], y_data[i]>>]

PositivePairs_RatioOnly(x_data, y_data) ==
    SelectSeq(Pairs(x_data, y_data), LAMBDA pr : RGt(pr[2], RZero))

\* mask = (x_data > 0) & (y_data > 0); x_data[mask], y_data[mask]
PositivePairs(x_data, y_data) ==
    SelectSeq(Pairs(x_data, y_data), LAMBDA pr : RGt(pr[1], RZero) /\ RGt(pr[2], RZero))

\* The global generator of np.random is a number in the model; seeding
\* puts it in the state of the seed, a draw depends on the state alone and
\* moves it on.
SeedState == 42

SeededState_Unseeded(rng) == rng

\* np.random.seed(42)
SeededState(rng) == SeedState

\* np.random.choice(n, size=size, replace=False) in generator state rng:
\* size distinct indices of 1..n (size < n)
choice(rng, n, size) == [j \in 1..size |-> ((rng + j - 1) % n) + 1]

\* whether the population is sampled (line 212)
Sampled(population, use_sampling, sample_size) ==
    use_sampling /\ Len(population) > sample_size

\* sample_indices (lines 213-214)
SampleIndices(population, use_sampling, sample_size, rng) ==
    IF Sampled(population, use_sampling, sample_size)
    THEN choice(SeededState(rng), Len(population), sample_size)
    ELSE [i \in 1..Len(population) |-> i]

\* the generator after lines 212-214
RngAfter(population, use_sampling, sample_size, rng) ==
    IF Sampled(population, use_sampling, sample_size)
    THEN SeededState(rng) + 1
    ELSE rng

IsFinite(r) == r[2] # 0

\* What curve_fit does is an outcome [raised, popt] in the model: it raises
\* (no convergence, maxfev evaluations used up, a RuntimeWarning turned
\* into an error, too few points), or returns popt; with bounds, popt lies
\* within them.

\* coeffs['Linear'] (lines 233-239)
LinearEntry(linear_fit) ==
    IF linear_fit.raised THEN None ELSE linear_fit.popt

ExponentialEntry_Unchecked(exponential_fit) ==
    IF exponential_fit.raised THEN None ELSE exponential_fit.popt

\* coeffs['Exponential'] (lines 242-264): the sanity check raises
\* RuntimeError, which the except clause turns into None
ExponentialEntry(exponential_fit) ==
    IF exponential_fit.raised THEN None
    ELSE IF \/ \E i \in 1..3 : ~IsFinite(exponential_fit.popt[i])
            \/ RLe(exponential_fit.popt[2], RZero)
            \/ RLe(exponential_fit.popt[1], RZero)
    THEN None
    ELSE exponential_fit.popt

FitResult_ExponentialFatal(plot, data, rng, linear_fit, exponential_fit) ==
    IF data = <<>> \/ exponential_fit.raised
    THEN [status |-> "raise", rng |-> rng]
    ELSE [status |-> "ok", rng |-> rng, plot |-> plot, data |-> data,
          coeffs |-> [Constant |-> RMean([i \in 1..Len(data) |-> data[i][2]]),
                      Linear |-> LinearEntry(linear_fit),
                      Exponential |-> ExponentialEntry(exponential_fit)]]

\* lines 221-277 on the population plot that is displayed and the
\* population data that is fitted; x_data.min() raises ValueError on an
\* empty population
FitResult(plot, data, rng, linear_fit, exponential_fit) ==
    IF data = <<>>
    THEN [status |-> "raise", rng |-> rng]
    ELSE [status |-> "ok", rng |-> rng, plot |-> plot, data |-> data,
          coeffs |-> [Constant |-> RMean([i \in 1..Len(data) |-> data[i][2]]),
                      Linear |-> LinearEntry(linear_fit),
                      Exponential |-> ExponentialEntry(exponential_fit)]]

\* lines 208-219: x_plot, y_plot and x_data, y_data after sampling
SampleStep(population, sample_indices, rng, linear_fit, exponential_fit) ==
    FitResult([j \in 1..Len(sample_indices) |-> population[sample_indices[j]]],
              [j \in 1..Len(sample_indices) |-> population[sample_indices[j]]],
              rng, linear_fit, exponential_fit)

\* lines 203-214
PopulationStep(population, use_sampling, sample_size, rng, linear_fit, exponential_fit) ==
    SampleStep(population,
               SampleIndices(population, use_sampling, sample_size, rng),
               RngAfter(population, use_sampling, sample_size, rng),
               linear_fit, exponential_fit)

\* fit_and_plot(x_data, y_data, ..., use_sampling, sample_size) with the
\* generator state rng and the outcomes of the two curve_fit calls; the
\* result carries the returned coeffs, the displayed and the fitted
\* population and the generator state after the call
fit_and_plot(x_data, y_data, use_sampling, sample_size, rng, linear_fit, exponential_fit) ==
    PopulationStep(PositivePairs(x_data, y_data), use_sampling, sample_size, rng,
                 linear_fit, exponential_fit)

-----------------------------------------------------------------------------
(* AnalysisChannelTab (bt_tab.py) and MainWindow.check_fits_confirmed *)

Channels == {"S1", "S2"}
Models == {"Constant", "Linear", "Exponential"}

\* what fit_and_plot returns in the model: every coefficient a rational,
\* None for a model whose fit failed
FitOutcomes ==
    {[Constant |-> <<1, 4>>,
      Linear |-> None,
      Exponential |-> << <<1, 4>>, <<1, 1>>, <<0, 1>> >>]}

\* the radio buttons the user clicks in the model
ClickedModels == {"Constant", "Linear"}

\* add_images with one stack chosen
TabAddImage(c) ==
    /\ tabs[c].controls_enabled
    /\ tabs[c].image_paths = <<>>
    /\ tabs' = [tabs EXCEPT ![c].image_paths = <<1>>]
    /\ UNCHANGED <<fret, widgets, files, call, table, trace, seg, config>>

\* a click on a model's radio button
TabSelectModel(c, model) ==
    /\ tabs[c].controls_enabled
    /\ model # tabs[c].checked
    /\ tabs' = [tabs EXCEPT ![c].checked = model]
    /\ UNCHANGED <<fret, widgets, files, call, table, trace, seg, config>>

\* what processing the stacks and fitting can produce: the dictionary of
\* fits, or an exception
RunOutcomes == [status : {"ok"}, fits : FitOutcomes] \cup {[status |-> "error"]}

\* the tabs t after run_analysis of tab c: outcome "error" is an exception
\* while the stacks are processed, "fit_error" one raised by fit_and_plot,
\* after self.results is assigned
AfterRunAnalysis(t, c, outcome) ==
    IF t[c].image_paths = <<>>
    THEN t
    ELSE IF outcome.status = "error"
    THEN [t EXCEPT ![c].threshold_active = FALSE]
    ELSE IF outcome.status = "fit_error"
    THEN [t EXCEPT ![c].results = TRUE, ![c].threshold_active = FALSE]
    ELSE [t EXCEPT ![c].results = TRUE,
                   ![c].threshold_active = FALSE,
                   ![c].fit_results = outcome.fits,
                   ![c].confirm_button = TRUE,
                   ![c].reset_button = FALSE]

\* AnalysisChannelTab.run_analysis
TabRunAnalysis(c, outcome) ==
    /\ tabs[c].controls_enabled
    /\ tabs' = AfterRunAnalysis(tabs, c, outcome)
    /\ UNCHANGED <<fret, widgets, files, call, table, trace, seg, config>>

\* MainWindow.check_fits_confirmed on the tabs t, with
\* FretTab.set_correction_parameters
check_fits_confirmed(t, f) ==
    LET fret_analysis_ready == t["S1"].fit_is_confirmed /\ t["S2"].fit_is_confirmed
        g == [f EXCEPT !.run_button = fret_analysis_ready]
    IN  IF fret_analysis_ready
        THEN [g EXCEPT !.donor_model = t["S1"].selected_fit_model,
                       !.donor_coeffs = t["S1"].fit_results[t["S1"].selected_fit_model],
                       !.acceptor_model = t["S2"].selected_fit_model,
                       !.acceptor_coeffs = t["S2"].fit_results[t["S2"].selected_fit_model]]
        ELSE g

\* AnalysisChannelTab.confirm_fit; fit_confirmation_signal runs
\* check_fits_confirmed
TabConfirmFit(c) ==
    /\ tabs[c].confirm_button
    /\ LET model == tabs[c].checked
           selected == [tabs EXCEPT ![c].selected_fit_model = model]
       IN  IF model \notin DOMAIN tabs[c].fit_results \/ tabs[c].fit_results[model] = None
           THEN /\ tabs' = selected
                /\ UNCHANGED fret
           ELSE /\ tabs' = [selected EXCEPT ![c].fit_is_confirmed = TRUE,
                                            ![c].controls_enabled = FALSE,
                                            ![c].confirm_button = FALSE,
                                            ![c].reset_button = TRUE]
                /\ fret' = check_fits_confirmed(tabs', fret)
    /\ UNCHANGED <<widgets, files, call, table, trace, seg, config>>

\* AnalysisChannelTab.reset_analysis
TabResetAnalysis(c) ==
    /\ tabs[c].reset_button
    /\ tabs' = [tabs EXCEPT ![c].fit_is_confirmed = FALSE,
                            ![c].controls_enabled = TRUE,
                            ![c].confirm_button = TRUE,
                            ![c].reset_button = FALSE]
    /\ UNCHANGED <<fret, widgets, files, call, table, trace, seg, config>>

\* on_zoom_pan, the callback of xlim_changed and ylim_changed of the axes
\* that display the results: zoom_timer.start(500) unless the fit is
\* confirmed
TabZoomPan(c) ==
    /\ tabs[c].results
    /\ IF tabs[c].fit_is_confirmed
       THEN UNCHANGED tabs
       ELSE tabs' = [tabs EXCEPT ![c].zoom_timer = TRUE]
    /\ UNCHANGED <<fret, widgets, files, call, table, trace, seg, config>>

\* what a refit produces: the dictionary of fits, an exception of
\* fit_and_plot ("fit_error"), or no point within the thresholds
\* ("excluded")
RefitOutcomes(fits) ==
    [status : {"ok"}, fits : fits] \cup {[status |-> "fit_error"], [status |-> "excluded"]}

\* zoom_timer.timeout: refit_and_update (lines 481-515)
TabZoomTimeout(c, outcome) ==
    /\ tabs[c].zoom_timer
    /\ outcome.status # "excluded"
    /\ IF ~tabs[c].results \/ tabs[c].threshold_active \/ outcome.status = "fit_error"
       THEN tabs' = [tabs EXCEPT ![c].zoom_timer = FALSE]
       ELSE tabs' = [tabs EXCEPT ![c].zoom_timer = FALSE,
                                 ![c].fit_results = outcome.fits]
    /\ UNCHANGED <<fret, widgets, files, call, table, trace, seg, config>>

\* update_plot_btn.clicked: apply_thresholds_and_refit (lines 685-722); the
\* button is none of those that set_controls_enabled disables
TabApplyThresholdsAndRefit(c, outcome) ==
    /\ IF ~tabs[c].results \/ outcome.status # "ok"
       THEN UNCHANGED tabs
       ELSE tabs' = [tabs EXCEPT ![c].fit_results = outcome.fits,
                                 ![c].threshold_active = TRUE]
    /\ UNCHANGED <<fret, widgets, files, call, table, trace, seg, config>>

\* AnalysisChannelTab.set_parameters (lines 633-654) on the tabs t:
\* [tabs, raised]; with results displayed, the call of fit_and_plot with
\* four arguments raises TypeError
set_parameters(t, c, params) ==
    IF t[c].results
    THEN [tabs |-> [t EXCEPT ![c].fit_results = params.fit_results,
                             ![c].selected_fit_model = params.selected_fit_model,
                             ![c].checked = params.selected_fit_model],
          raised |-> TRUE]
    ELSE [tabs |-> [t EXCEPT ![c].fit_results = params.fit_results,
                             ![c].selected_fit_model = params.selected_fit_model,
                             ![c].checked = params.selected_fit_model,
                             ![c].confirm_button = TRUE,
                             ![c].reset_button = TRUE],
          raised |-> FALSE]

\* the rest of _load_from_path after the donor tab's set_parameters
LoadAcceptorStep(donor_set, loaded_params) ==
    IF donor_set.raised THEN donor_set.tabs
    ELSE set_parameters(donor_set.tabs, "S2", loaded_params.acceptor_params).tabs

\* load_button.clicked: BleedThroughTab.load_parameters and _load_from_path
\* (lines 816-864) with a file that holds loaded_params
LoadParameters(loaded_params) ==
    /\ tabs' = LoadAcceptorStep(set_parameters(tabs, "S1", loaded_params.donor_params),
                                loaded_params)
    /\ UNCHANGED <<fret, widgets, files, call, table, trace, seg, config>>

-----------------------------------------------------------------------------
(* The application: both calibration tabs and the FRET tab *)

MaxImages == 2

\* The files the user can add to the FRET tab: path 1 is a segmented
\* four-frame TIFF (labels, FRET, donor, acceptor), path 2 a TIFF with three
\* frames, any further path a file of another format.
ImageFile(path) ==
    IF path = 1
    THEN [ext |-> "tif", ndim |-> 3,
          frames |-> << <<1, 2, 0>>, <<4, 1, 0>>, <<1, 1, 0>>, <<4, 1, 0>> >>]
    ELSE IF path = 2
    THEN [ext |-> "tif", ndim |-> 3,
          frames |-> << <<1, 2, 0>>, <<4, 1, 0>>, <<1, 1, 0>> >>]
    ELSE [ext |-> "png", ndim |-> 2, frames |-> << <<1, 2, 0>> >>]

\* Between two runs the file of an analysed image is overwritten on disk by
\* a stack of three frames: each run reads the files anew.
FileOverwritten(file_path) ==
    /\ file_path \in DOMAIN fret.analysis_results
    /\ files[file_path] = ImageFile(1)
    /\ files' = [files EXCEPT ![file_path] = ImageFile(2)]
    /\ UNCHANGED <<tabs, fret, widgets, table, trace, call, seg, config>>

-----------------------------------------------------------------------------
(* CellposeSegmentationTab.batch_segment_and_transfer and BatchWorker *)

\* The images the user can load into the segmentation tab: raw stacks of
\* three frames (FRET, donor, acceptor); the raw image r is saved by the
\* batch as the FRET tab's path r (segmented/<prefix><base_name>.tif)
RawImages == {<<"raw", r>> : r \in 1..MaxImages}

\* output_path of BatchWorker.run for image_path
OutputPath(image_path) == image_path[2]

\* frames_to_save written by tifffile.imwrite: the mask, then the original
\* frames
SegmentedFile ==
    [ext |-> "tif", ndim |-> 3,
     frames |-> << <<1, 2, 0>> >> \o << <<4, 1, 0>>, <<1, 1, 0>>, <<4, 1, 0>> >>]

\* BatchWorker before start() and the locals of run
InitWorker ==
    [pc |-> "idle", idx |-> 0, total |-> 0, transferred_count |-> 0,
     image_path |-> <<>>, saved_path |-> 0]

\* CellposeSegmentationTab.__init__: no image, buttons enabled, no dialog;
\* signals are the worker's emitted signals queued for the GUI thread
InitSeg ==
    [image_paths |-> <<>>, buttons |-> TRUE, progress_dialog |-> FALSE,
     worker |-> InitWorker, signals |-> <<>>, batches |-> 0]

\* the batches started in one session are capped
MaxBatches == 1

\* the ApplicationModal progress dialog blocks the user's input to every
\* window while it is shown
InputAccepted == ~seg.progress_dialog

\* the worker thread is between start() and the return of run
WorkerRunning == seg.worker.pc \notin {"idle", "done"}

\* CellposeSegmentationTab._add_image_paths with one TIFF (btn_load)
SegLoadImages(file_path) ==
    /\ InputAccepted /\ seg.buttons
    /\ file_path \in RawImages
    /\ \A i \in 1..Len(seg.image_paths) : seg.image_paths[i] # file_path
    /\ seg' = [seg EXCEPT !.image_paths = Append(@, file_path)]
    /\ UNCHANGED <<tabs, fret, widgets, files, table, trace, call, config>>

\* CellposeSegmentationTab.remove_selected_images with one row selected
\* (btn_remove, which set_buttons_enabled leaves alone)
SegRemoveSelectedImages(row) ==
    /\ InputAccepted
    /\ row \in 1..Len(seg.image_paths)
    /\ seg' = [seg EXCEPT !.image_paths =
                  SubSeq(@, 1, row - 1) \o SubSeq(@, row + 1, Len(@))]
    /\ UNCHANGED <<tabs, fret, widgets, files, table, trace, call, config>>

\* batch_segment_and_transfer with a group name entered; the model follows
\* one worker at a time
BatchSegmentAndTransfer ==
    /\ InputAccepted /\ seg.buttons
    /\ ~WorkerRunning
    /\ seg.image_paths # <<>>
    /\ seg.batches < MaxBatches
    /\ seg' = [seg EXCEPT !.buttons = FALSE,
                          !.batches = @ + 1,
                          !.progress_dialog = TRUE,
                          !.worker = [InitWorker EXCEPT !.pc = "start"]]
    /\ UNCHANGED <<tabs, fret, widgets, files, table, trace, call, config>>

\* BatchWorker.run up to the loop (lines 3352-3363)
WorkerBegin ==
    /\ seg.worker.pc = "start"
    /\ seg' = [seg EXCEPT !.worker.pc = "loop",
                          !.worker.total = Len(seg.image_paths),
                          !.signals = Append(@, <<"progress">>)]
    /\ UNCHANGED <<tabs, fret, widgets, files, table, trace, call, config>>

\* the head of the loop (lines 3365-3371) and the end of run (3434-3441):
\* parent.image_paths[idx] outside the inner try raises into the outer
\* except, which emits error and ends the run without finished
WorkerNextImage ==
    /\ seg.worker.pc = "loop"
    /\ seg' =
         IF seg.worker.idx = seg.worker.total
         THEN [seg EXCEPT !.worker.pc = "done",
                          !.signals = @ \o << <<"progress">>,
                                              <<"finished", seg.worker.transferred_count>> >>]
         ELSE IF seg.worker.idx + 1 > Len(seg.image_paths)
         THEN [seg EXCEPT !.worker.pc = "done",
                          !.signals = Append(@, <<"error">>)]
         ELSE [seg EXCEPT !.worker.pc = "segment",
                          !.worker.image_path = seg.image_paths[seg.worker.idx + 1],
                          !.signals = Append(@, <<"progress">>)]
    /\ UNCHANGED <<tabs, fret, widgets, files, table, trace, call, config>>

SegmentationOutcomes == {"masks", "none", "raise"}

\* the inner try up to the call of transfer_to_fret (lines 3373-3423):
\* run_segmentation returns masks, returns None or raises
WorkerSegment(outcome) ==
    /\ seg.worker.pc = "segment"
    /\ outcome \in SegmentationOutcomes
    /\ IF outcome = "masks"
       THEN /\ files' = [files EXCEPT ![OutputPath(seg.worker.image_path)] = SegmentedFile]
            /\ seg' = [seg EXCEPT !.worker.pc = "transfer",
                                  !.worker.saved_path = OutputPath(seg.worker.image_path)]
       ELSE /\ UNCHANGED files
            /\ seg' = [seg EXCEPT !.worker.pc = "loop",
                                  !.worker.idx = @ + 1,
                                  !.signals = IF outcome = "raise"
                                              THEN Append(@, <<"error">>) ELSE @]
    /\ UNCHANGED <<tabs, fret, widgets, table, trace, call, config>>

\* the worker's locals when transfer_to_fret has returned True
Transferred(worker) ==
    [worker EXCEPT !.pc = "loop", !.idx = @ + 1, !.transferred_count = @ + 1]

\* transfer_to_fret, in the worker thread: the test
\* "saved_path not in fret_tab.image_paths" (line 3582)
WorkerTransferCheck ==
    /\ seg.worker.pc = "transfer"
    /\ seg' = IF \E i \in 1..Len(fret.image_paths) :
                     fret.image_paths[i] = seg.worker.saved_path
              THEN [seg EXCEPT !.worker = Transferred(@)]
              ELSE [seg EXCEPT !.worker.pc = "append"]
    /\ UNCHANGED <<tabs, fret, widgets, files, table, trace, call, config>>

\* fret_tab.image_paths.append(saved_path) (line 3584)
WorkerTransferAppend ==
    /\ seg.worker.pc = "append"
    /\ fret' = [fret EXCEPT !.image_paths = Append(@, seg.worker.saved_path)]
    /\ seg' = [seg EXCEPT !.worker.pc = "add_item"]
    /\ UNCHANGED <<tabs, widgets, files, table, trace, call, config>>

\* image_list_widget.addItem(item), setCurrentItem, update_tab_state(True)
\* and return True (lines 3588-3617)
WorkerTransferAddItem ==
    /\ seg.worker.pc = "add_item"
    /\ fret' = [fret EXCEPT !.list_widget = Append(@, seg.worker.saved_path),
                            !.tab_enabled = TRUE]
    /\ seg' = [seg EXCEPT !.worker = Transferred(@)]
    /\ UNCHANGED <<tabs, widgets, files, table, trace, call, config>>

\* the GUI thread delivers the oldest queued signal to its slots:
\* progress -> update_status; error -> on_batch_error and
\* close_processing_dialog; finished -> on_batch_complete and
\* close_processing_dialog
DeliverSignal ==
    /\ seg.signals # <<>>
    /\ LET signal == Head(seg.signals)
           rest == [seg EXCEPT !.signals = Tail(@)]
       IN  seg' =
             IF signal[1] = "progress" THEN rest
             ELSE IF signal[1] = "error"
             THEN [rest EXCEPT !.buttons = TRUE, !.progress_dialog = FALSE]
             ELSE [rest EXCEPT !.image_paths = IF signal[2] > 0 THEN <<>> ELSE @,
                               !.buttons = TRUE,
                               !.progress_dialog = FALSE]
    /\ UNCHANGED <<tabs, fret, widgets, files, table, trace, call, config>>

-----------------------------------------------------------------------------
(* ConfigManager *)

\* A configuration is a dict from key parts to values; a value is a scalar
\* <<"s", v>> or a nested dict <<"d", dict>>.  A dotted key is the sequence
\* of its parts: "a.x" is <<"a", "x">>.
Scalar(v) == <<"s", v>>

Dict(d) == <<"d", d>>

IsDict(value) == value[1] = "d"

EmptyDict == <<>>

\* the node _traverse(key, create=False) returns when it returns None
Missing == <<"n">>

\* parts[:-1] and parts[-1] of key.split('.')
Prefix(key) == SubSeq(key, 1, Len(key) - 1)

Leaf(key) == key[Len(key)]

RECURSIVE NodeAt(_, _)
\* the loop of _traverse with create=False (lines 266-282): the dict the
\* prefix leads to, or Missing when a part is absent or holds a scalar
NodeAt(node, prefix) ==
    IF prefix = <<>> THEN Dict(node)
    ELSE IF Head(prefix) \notin DOMAIN node THEN Missing
    ELSE IF ~IsDict(node[Head(prefix)]) THEN Missing
    ELSE NodeAt(node[Head(prefix)][2], Tail(prefix))

RECURSIVE CreatePath(_, _)
\* the data after the loop of _traverse with create=True: an absent part and
\* a part holding a scalar become an empty dict
CreatePath(node, prefix) ==
    IF prefix = <<>> THEN node
    ELSE LET part == Head(prefix)
             child == IF part \in DOMAIN node /\ IsDict(node[part])
                      THEN node[part][2] ELSE EmptyDict
         IN  (part :> Dict(CreatePath(child, Tail(prefix)))) @@ node

RECURSIVE Creates(_, _)
\* the loop of _traverse with create=True sets _dirty (lines 271, 278)
Creates(node, prefix) ==
    IF prefix = <<>> THEN FALSE
    ELSE \/ Head(prefix) \notin DOMAIN node
         \/ ~IsDict(node[Head(prefix)])
         \/ Creates(node[Head(prefix)][2], Tail(prefix))

RECURSIVE WithLeaf(_, _, _, _)
\* node[leaf] = value on the dict the prefix leads to
WithLeaf(node, prefix, leaf, value) ==
    IF prefix = <<>> THEN (leaf :> value) @@ node
    ELSE (Head(prefix) :> Dict(WithLeaf(node[Head(prefix)][2], Tail(prefix), leaf, value)))
         @@ node

RECURSIVE WithoutLeaf(_, _, _)
\* del node[leaf] on the dict the prefix leads to
WithoutLeaf(node, prefix, leaf) ==
    IF prefix = <<>> THEN [k \in DOMAIN node \ {leaf} |-> node[k]]
    ELSE (Head(prefix) :> Dict(WithoutLeaf(node[Head(prefix)][2], Tail(prefix), leaf)))
         @@ node

\* ConfigManager.set (lines 127-140) on the manager cfg
set(cfg, key, value) ==
    LET created == CreatePath(cfg.data, Prefix(key))
        dirty == cfg.dirty \/ Creates(cfg.data, Prefix(key))
        node == NodeAt(created, Prefix(key))[2]
    IN  IF Leaf(key) \notin DOMAIN node \/ node[Leaf(key)] # value
        THEN [cfg EXCEPT !.data = WithLeaf(created, Prefix(key), Leaf(key), value),
                         !.dirty = TRUE,
                         !.last = <<"set">>]
        ELSE [cfg EXCEPT !.data = created, !.dirty = dirty, !.last = <<"set">>]

delete_NotDirty(cfg, key) ==
    LET node == NodeAt(cfg.data, Prefix(key))
    IN  IF node # Missing /\ Leaf(key) \in DOMAIN node[2]
        THEN [cfg EXCEPT !.data = WithoutLeaf(cfg.data, Prefix(key), Leaf(key)),
                         !.last = <<"delete", TRUE>>]
        ELSE [cfg EXCEPT !.last = <<"delete", FALSE>>]

\* ConfigManager.delete (lines 142-157)
delete(cfg, key) ==
    LET node == NodeAt(cfg.data, Prefix(key))
    IN  IF node # Missing /\ Leaf(key) \in DOMAIN node[2]
        THEN [cfg EXCEPT !.data = WithoutLeaf(cfg.data, Prefix(key), Leaf(key)),
                         !.dirty = TRUE,
                         !.last = <<"delete", TRUE>>]
        ELSE [cfg EXCEPT !.last = <<"delete", FALSE>>]

\* ConfigManager.get (lines 80-97) with default None: the manager is not
\* assigned, the returned value is kept in last
get(cfg, key) ==
    LET node == NodeAt(cfg.data, Prefix(key))
    IN  [cfg EXCEPT !.last =
            IF node = Missing \/ Leaf(key) \notin DOMAIN node[2]
            THEN <<"get", Missing>>
            ELSE <<"get", node[2][Leaf(key)]>>]

\* ConfigManager.__contains__ (lines 305-308)
contains(cfg, key) ==
    LET node == NodeAt(cfg.data, Prefix(key))
    IN  [cfg EXCEPT !.last = <<"contains", node # Missing /\ Leaf(key) \in DOMAIN node[2]>>]

\* ConfigManager.clear (lines 215-218)
clear(cfg) == [cfg EXCEPT !.data = EmptyDict, !.dirty = TRUE, !.last = <<"clear">>]

RECURSIVE Encode(_, _)
\* the entries of json.dump(node): one per scalar, with its path and value,
\* and one per nested dict, with its path
Encode(node, at) ==
    UNION {IF IsDict(node[k])
           THEN {<<Append(at, k), "d">>} \cup Encode(node[k][2], Append(at, k))
           ELSE {<<Append(at, k), "s", node[k][2]>>} : k \in DOMAIN node}

RECURSIVE Decode(_, _)
\* json.load of the entries below the path at
Decode(entries, at) ==
    LET below == {e \in entries : /\ Len(e[1]) = Len(at) + 1
                                  /\ SubSeq(e[1], 1, Len(at)) = at}
    IN  [k \in {e[1][Len(at) + 1] : e \in below} |->
            LET entry == CHOOSE e \in below : e[1] = Append(at, k)
            IN  IF entry[2] = "d" THEN Dict(Decode(entries, Append(at, k)))
                ELSE Scalar(entry[3])]

\* a path of the file system without a file
Absent == <<"absent">>

\* the content of a file json.dump wrote in full
JsonFile(data) == <<"json", Encode(data, <<>>)>>

\* the content of a file whose writing failed
Partial == <<"partial">>

\* ConfigManager._load (lines 222-250) of a file this manager wrote, or of
\* no file
load(cfg) ==
    IF cfg.file = Absent
    THEN [cfg EXCEPT !.data = EmptyDict]
    ELSE [cfg EXCEPT !.data = Decode(cfg.file[2], <<>>), !.dirty = FALSE]

\* ConfigManager.reload (lines 210-213)
reload(cfg) == [load(cfg) EXCEPT !.last = <<"reload">>]

\* range(3) of sync
MaxAttempts == 3

\* what happens in one attempt of sync: every step succeeds, or writing the
\* temporary file, removing the old file or the rename raises OSError
AttemptOutcomes == {"ok", "write", "unlink", "replace"}

\* one attempt of sync (lines 177-195): [cfg, raised]
Attempt(cfg, outcome) ==
    IF outcome = "write"
    THEN [cfg |-> [cfg EXCEPT !.tmp = Partial], raised |-> TRUE]
    ELSE IF outcome = "unlink" /\ cfg.file # Absent
    THEN [cfg |-> [cfg EXCEPT !.tmp = JsonFile(cfg.data)], raised |-> TRUE]
    ELSE IF outcome = "replace"
    THEN [cfg |-> [cfg EXCEPT !.tmp = JsonFile(cfg.data), !.file = Absent],
          raised |-> TRUE]
    ELSE [cfg |-> [cfg EXCEPT !.tmp = Absent, !.file = JsonFile(cfg.data),
                              !.dirty = FALSE],
          raised |-> FALSE]

RECURSIVE SyncLoop(_, _, _)
\* the loop of sync from the given attempt (1-based) on (lines 176-206);
\* last is <<"sync", returned value, attempts made>>
SyncLoop(cfg, attempt, outcomes) ==
    LET r == Attempt(cfg, outcomes[attempt])
    IN  IF ~r.raised THEN [r.cfg EXCEPT !.last = <<"sync", TRUE, attempt>>]
        ELSE IF attempt = MaxAttempts
        THEN [r.cfg EXCEPT !.last = <<"sync", FALSE, attempt>>]
        ELSE SyncLoop(r.cfg, attempt + 1, outcomes)

\* ConfigManager.sync (lines 159-208); mkdir_ok: the directory can be created
sync(cfg, mkdir_ok, outcomes) ==
    IF ~cfg.dirty THEN [cfg EXCEPT !.last = <<"sync", TRUE, 0>>]
    ELSE IF ~mkdir_ok THEN [cfg EXCEPT !.last = <<"sync", FALSE, 0>>]
    ELSE SyncLoop(cfg, 1, outcomes)

\* ConfigManager.__init__ (lines 39-70) on a path holding the given file
NewConfigManager(file) ==
    load([data |-> EmptyDict, dirty |-> FALSE, file |-> file, tmp |-> Absent,
          last |-> <<"init">>])

\* the configuration of a first start: no file
InitConfig == NewConfigManager(Absent)

\* the dotted keys "a" and "a.x", and the values set
ConfigKeys == {<<"a">>, <<"a", "x">>}

MaxValue == 2

ConfigValues == {Scalar(v) : v \in 1..MaxValue}

ConfigSet(key, value) ==
    /\ config' = set(config, key, value)
    /\ UNCHANGED <<tabs, fret, widgets, files, table, trace, call, seg>>

ConfigDelete(key) ==
    /\ config' = delete(config, key)
    /\ UNCHANGED <<tabs, fret, widgets, files, table, trace, call, seg>>

ConfigGet(key) ==
    /\ config' = get(config, key)
    /\ UNCHANGED <<tabs, fret, widgets, files, table, trace, call, seg>>

ConfigContains(key) ==
    /\ config' = contains(config, key)
    /\ UNCHANGED <<tabs, fret, widgets, files, table, trace, call, seg>>

ConfigClear ==
    /\ config' = clear(config)
    /\ UNCHANGED <<tabs, fret, widgets, files, table, trace, call, seg>>

ConfigReload ==
    /\ config' = reload(config)
    /\ UNCHANGED <<tabs, fret, widgets, files, table, trace, call, seg>>

ConfigSync(mkdir_ok, outcomes) ==
    /\ config' = sync(config, mkdir_ok, outcomes)
    /\ UNCHANGED <<tabs, fret, widgets, files, table, trace, call, seg>>

\* The widgets' values as constructed without a configuration (lines
\* 1123-1240), except that the background kernel is 1 pixel and the Gaussian
\* blur is off, which keeps every intensity of the model an integer.
DefaultSettings ==
    [ratio_threshold |-> 100,
     pixfret_checkbox |-> FALSE, pixfret_factor |-> RInt(1),
     cell_eff_checkbox |-> FALSE, cell_eff_lower |-> RInt(0), cell_eff_upper |-> RInt(50),
     lower_threshold |-> RInt(0), upper_threshold |-> RInt(50),
     bg_kernel |-> 1,
     formulas |-> {"FRET/Donor"}]

\* AnalysisChannelTab.__init__ and initUI
InitTab ==
    [image_paths |-> <<>>, results |-> FALSE, fit_results |-> <<>>,
     selected_fit_model |-> "Exponential", checked |-> "Linear",
     fit_is_confirmed |-> FALSE, controls_enabled |-> TRUE,
     confirm_button |-> FALSE, reset_button |-> FALSE,
     threshold_active |-> FALSE, zoom_timer |-> FALSE]

\* FretTab.__init__ and init_ui
InitFret ==
    [donor_model |-> None, donor_coeffs |-> None,
     acceptor_model |-> None, acceptor_coeffs |-> None,
     image_paths |-> <<>>, list_widget |-> <<>>, analysis_results |-> <<>>,
     run_button |-> FALSE, tab_enabled |-> FALSE,
     aggregate_formula |-> "FRET/Donor",
     combo_items |-> {"FRET/Donor", "FRET/Acceptor", "Xia", "Gordon", "PixFRET"}]

Init ==
    /\ tabs = [c \in Channels |-> InitTab]
    /\ fret = InitFret
    /\ widgets = DefaultSettings
    /\ files = [path \in 1..MaxImages |-> ImageFile(path)]
    /\ table = <<>>
    /\ trace = <<>>
    /\ call = None
    /\ seg = InitSeg
    /\ config = InitConfig

Next ==
    \/ \E c \in Channels : TabAddImage(c)
    \/ \E c \in Channels, model \in ClickedModels : TabSelectModel(c, model)
    \/ \E c \in Channels, outcome \in RunOutcomes : TabRunAnalysis(c, outcome)
    \/ \E c \in Channels : TabConfirmFit(c)
    \/ \E c \in Channels : TabResetAnalysis(c)
    \/ \E file_path \in 1..MaxImages : FretAddImages(file_path)
    \/ \E row \in 1..MaxImages : FretRemoveImage(row)
    \/ FretResetTab
    \/ \E analyze_all \in BOOLEAN, current_row \in 0..MaxImages :
          FretRunAnalysis(analyze_all, current_row)
    \/ \E file_path \in 1..MaxImages : FileOverwritten(file_path)

Spec == Init /\ [][Next]_vars

-----------------------------------------------------------------------------
(* The analysis of one image under every combination of settings *)

MaxLabel == 2

\* A pixel of a cell as <<donor, acceptor, FRET>> above the background:
\* bright and balanced; the same with much FRET; acceptor-heavy;
\* donor-heavy; no acceptor signal.
PixelKinds ==
    {<<4, 4, 4>>, <<4, 4, 12>>, <<1, 4, 4>>, <<4, 1, 4>>, <<4, 0, 4>>}

\* Segmented stacks of three pixels: two pixels labelled 0..MaxLabel and a
\* background pixel.  The background level of every channel is one count,
\* the minimum that subtract_background removes.
AnalysisFiles ==
    {[ext |-> "tif", ndim |-> 3,
      frames |-> << <<l[1], l[2], 0>>,
                    <<1 + k[1][3], 1 + k[2][3], 1>>,
                    <<1 + k[1][1], 1 + k[2][1], 1>>,
                    <<1 + k[1][2], 1 + k[2][2], 1>> >>] :
        l \in [1..2 -> 0..MaxLabel], k \in [1..2 -> PixelKinds]}

\* The values run_analysis reads from the settings widgets.  The ratio
\* threshold takes a value on each side of the test of line 1982: 2, and 0,
\* the value the else branch of line 2000 is written for (the spin box of
\* line 1182 itself starts at 1).
AnalysisSettings ==
    {[ratio_threshold |-> t,
      pixfret_checkbox |-> pf, pixfret_factor |-> RInt(1),
      cell_eff_checkbox |-> band, cell_eff_lower |-> RInt(30), cell_eff_upper |-> RInt(80),
      lower_threshold |-> RInt(0), upper_threshold |-> upper,
      bg_kernel |-> 1,
      formulas |-> checked] :
        t \in {0, 2}, pf \in BOOLEAN, band \in BOOLEAN,
        upper \in {RInt(50), RInt(100)},
        checked \in {{}, {"FRET/Donor", "FRET/Acceptor", "Xia"}, {"Gordon", "PixFRET"}}}

\* a calibration tab after run_analysis and confirm_fit with Constant checked
ConfirmedTab ==
    [image_paths |-> <<1>>, results |-> TRUE,
     fit_results |-> CHOOSE fits \in FitOutcomes : TRUE,
     selected_fit_model |-> "Constant", checked |-> "Constant",
     fit_is_confirmed |-> TRUE, controls_enabled |-> FALSE,
     confirm_button |-> FALSE, reset_button |-> TRUE,
     threshold_active |-> FALSE, zoom_timer |-> FALSE]

\* The application once both fits are confirmed and one image is added to
\* the FRET tab; the settings are those restored from the configuration.
InitAnalysis ==
    /\ tabs = [c \in Channels |-> ConfirmedTab]
    /\ fret = [check_fits_confirmed(tabs, InitFret) EXCEPT !.image_paths = <<1>>, !.list_widget = <<1>>,
                                                          !.tab_enabled = TRUE]
    /\ widgets \in AnalysisSettings
    /\ files \in {[path \in {1} |-> file] : file \in AnalysisFiles}
    /\ table = <<>>
    /\ trace = <<>>
    /\ call = None
    /\ seg = InitSeg
    /\ config = InitConfig

NextAnalysis ==
    \/ \E analyze_all \in BOOLEAN : FretRunAnalysis(analyze_all, 0)
    \/ \E formula \in {FormulaOrder[i] : i \in 1..Len(FormulaOrder)} :
          SelectAggregateFormula(formula)

SpecAnalysis == InitAnalysis /\ [][NextAnalysis]_vars

-----------------------------------------------------------------------------
(* Properties of the application (Spec) *)

\* FretTab.run_analysis can be started: run_button is enabled and so is the
\* Analysis group box that holds it
CanRunFretAnalysis == fret.run_button /\ fret.tab_enabled

\* C1: whenever FretTab.run_analysis can be started, both calibration tabs
\* have fit_is_confirmed set and the FRET tab's donor_model and
\* acceptor_model are not None.
C1_RunRequiresConfirmedFits ==
    CanRunFretAnalysis =>
        /\ tabs["S1"].fit_is_confirmed
        /\ tabs["S2"].fit_is_confirmed
        /\ fret.donor_model # None
        /\ fret.acceptor_model # None

\* C2: an image is never prepared with a missing correction model: when
\* donor_model or acceptor_model is None or names no model, the run raises
\* for the image instead of storing a result computed with zero
\* bleed-through.
C2_MissingModelRaises ==
    \A file_path \in DOMAIN trace :
        trace[file_path].status = "ok" =>
            /\ trace[file_path].donor_model \in Models
            /\ trace[file_path].acceptor_model \in Models

-----------------------------------------------------------------------------
(* Properties of the analysis of an image (SpecAnalysis) *)

\* the images the last run stored a result for
Analysed == {file_path \in DOMAIN trace : trace[file_path].status = "ok"}

Stages == {"ratio", "pixfret", "band"}

EnabledStages(w) ==
    {st \in Stages : \/ st = "ratio" /\ w.ratio_threshold > 0
                     \/ st = "pixfret" /\ w.pixfret_checkbox
                     \/ st = "band" /\ w.cell_eff_checkbox}

\* the settings w with the stages of off disabled
Without(w, off) ==
    [w EXCEPT !.ratio_threshold = IF "ratio" \in off THEN 0 ELSE @,
              !.pixfret_checkbox = IF "pixfret" \in off THEN FALSE ELSE @,
              !.cell_eff_checkbox = IF "band" \in off THEN FALSE ELSE @]

\* the final mask run_analysis computes for an analysed image under the
\* settings w
FinalMaskUnder(file_path, w) ==
    MaskSet(AnalyseImage(trace[file_path].prep, fret, w).final_mask)

\* C3 as stated: for every combination of settings, the final inclusion
\* mask is contained in the final mask obtained with one of the enabled
\* stages (ratio threshold > 0, PixFRET, cell band) disabled: enabling a
\* stage never adds a pixel.
C3_MaskMonotoneInStages ==
    \A file_path \in Analysed :
        \A st \in EnabledStages(trace[file_path].settings) :
            MaskSet(trace[file_path].final_mask)
                \subseteq FinalMaskUnder(file_path,
                                         Without(trace[file_path].settings, {st}))

\* C3 as the code has it: enabling the cell band never adds a pixel, and
\* while the cell band is disabled enabling the ratio or the PixFRET stage
\* never adds one.  (With the cell band enabled, another stage can move a
\* cell's mean into the band and so add the cell's pixels.)
C3_MaskMonotoneWithoutBand ==
    \A file_path \in Analysed :
        \A st \in EnabledStages(trace[file_path].settings) :
            (st = "band" \/ ~trace[file_path].settings.cell_eff_checkbox) =>
                MaskSet(trace[file_path].final_mask)
                    \subseteq FinalMaskUnder(file_path,
                                             Without(trace[file_path].settings, {st}))

\* an image analysed with the three stages enabled, whose final mask keeps
\* some labelled pixels and drops others
C3_Witness ==
    \E file_path \in Analysed :
        /\ EnabledStages(trace[file_path].settings) = Stages
        /\ MaskSet(trace[file_path].final_mask) # {}
        /\ MaskSet(trace[file_path].final_mask)
               # MaskSet(label_mask(trace[file_path].prep.labels))

\* the three conditions of the PixFRET stage at each pixel of an analysed
\* image
PixfretMaskOf(file_path) ==
    pixfret_threshold(trace[file_path].prep.donor, trace[file_path].prep.acceptor,
                      trace[file_path].prep.bg_donor, trace[file_path].prep.bg_acceptor,
                      trace[file_path].settings.pixfret_factor)

\* the donor/acceptor ratio rule at pixel p of an analysed image
PassesRatioRule(file_path, p) ==
    valid_ratio(trace[file_path].prep.donor[p], trace[file_path].prep.acceptor[p],
                trace[file_path].settings.ratio_threshold)

WithinRatio(donor, acceptor, T) ==
    /\ RGt(acceptor, RZero)
    /\ RLe(donor, RMul(RInt(T), acceptor))
    /\ RGe(RMul(RInt(T), donor), acceptor)

\* C5: with ratio_threshold T > 0, a pixel of a labelled cell is in the mask
\* after the ratio stage iff it was in the mask before it and acceptor > 0,
\* donor <= T*acceptor and T*donor >= acceptor; a pixel with label 0 is left
\* as it was; for T = 10, (donor 200, acceptor 5) is excluded and
\* (donor 20, acceptor 5) is retained.
C5_RatioStage ==
    /\ \A file_path \in Analysed :
          trace[file_path].settings.ratio_threshold > 0 =>
              \A p \in Pixels(trace[file_path].prep.labels) :
                  IF trace[file_path].prep.labels[p] > 0
                  THEN trace[file_path].ratio_stage[p] <=>
                           /\ trace[file_path].pixfret_stage[p]
                           /\ WithinRatio(trace[file_path].prep.donor[p],
                                          trace[file_path].prep.acceptor[p],
                                          trace[file_path].settings.ratio_threshold)
                  ELSE trace[file_path].ratio_stage[p] = trace[file_path].pixfret_stage[p]
    /\ ~valid_ratio(RInt(200), RInt(5), 10)
    /\ valid_ratio(RInt(20), RInt(5), 10)

\* an image analysed with a ratio threshold, in which the ratio stage
\* removes a labelled pixel whose ratio is below 1/T and keeps another pixel
C5_Witness ==
    \E file_path \in Analysed :
        /\ trace[file_path].settings.ratio_threshold > 0
        /\ \E p, q \in Pixels(trace[file_path].prep.labels) :
              /\ trace[file_path].prep.labels[p] > 0
              /\ trace[file_path].pixfret_stage[p]
              /\ ~trace[file_path].ratio_stage[p]
              /\ RGt(trace[file_path].prep.acceptor[p], RZero)
              /\ RLt(trace[file_path].prep.donor[p], trace[file_path].prep.acceptor[p])
              /\ trace[file_path].ratio_stage[q]

\* C6 as stated: with ratio_threshold > 0, a cell is recorded as wholly
\* excluded, and counted in _excluded_count, iff every pixel of the cell is
\* excluded by the donor/acceptor ratio rule.
C6_ExcludedIffRatioRule ==
    \A file_path \in Analysed :
        trace[file_path].settings.ratio_threshold > 0 =>
            /\ trace[file_path].ratio_excluded =
                  {lbl \in Labels(trace[file_path].prep.labels) \ {0} :
                      \A p \in CellPixels(trace[file_path].prep.labels, lbl) :
                          ~PassesRatioRule(file_path, p)}
            /\ trace[file_path].efficiencies.excluded_count =
                  Cardinality(trace[file_path].ratio_excluded)

\* C6 as the code has it: with ratio_threshold > 0, a cell is recorded as
\* wholly excluded by the ratio stage iff none of its pixels is in the mask
\* after the PixFRET stage (when enabled) and the ratio rule, and
\* _excluded_count counts these cells and the cells excluded by the cell
\* band.
C6_ExcludedIffNoPixelLeft ==
    \A file_path \in Analysed :
        trace[file_path].settings.ratio_threshold > 0 =>
            /\ trace[file_path].ratio_excluded =
                  {lbl \in Labels(trace[file_path].prep.labels) \ {0} :
                      \A p \in CellPixels(trace[file_path].prep.labels, lbl) :
                          ~(/\ trace[file_path].pixfret_stage[p]
                            /\ PassesRatioRule(file_path, p))}
            /\ trace[file_path].efficiencies.excluded_count =
                  Cardinality(trace[file_path].ratio_excluded
                                  \cup trace[file_path].band_excluded)

\* an image analysed with a ratio threshold and PixFRET thresholding in
\* which a cell is recorded as wholly excluded although one of its pixels
\* meets the ratio rule
C6_Witness ==
    \E file_path \in Analysed :
        /\ trace[file_path].settings.ratio_threshold > 0
        /\ \E lbl \in trace[file_path].ratio_excluded :
              \E p \in CellPixels(trace[file_path].prep.labels, lbl) :
                  PassesRatioRule(file_path, p)

\* the provisional efficiency values of cell lbl over the pixels included
\* before the cell band that are > 0
IncludedPositiveVals(file_path, lbl) ==
    PositiveVals(trace[file_path].temp_eff_map,
                 {p \in CellPixels(trace[file_path].prep.labels, lbl) :
                     trace[file_path].ratio_stage[p]})

OutsideBand(vals, w) ==
    /\ Len(vals) # 0
    /\ \/ RLt(RMean(vals), w.cell_eff_lower)
       \/ RGt(RMean(vals), w.cell_eff_upper)

\* C7: with the cell band enabled, for every positive label: if the mean of
\* its provisional efficiency values over the already-included pixels that
\* are > 0 is below cell_lower or above cell_upper, no pixel of the label is
\* in the final mask; otherwise the label's pixels in the mask are those
\* that were in it before the stage.
C7_BandIsWholeCell ==
    \A file_path \in Analysed :
        trace[file_path].settings.cell_eff_checkbox =>
            \A lbl \in Labels(trace[file_path].prep.labels) \ {0} :
                IF OutsideBand(IncludedPositiveVals(file_path, lbl),
                               trace[file_path].settings)
                THEN \A p \in CellPixels(trace[file_path].prep.labels, lbl) :
                         ~trace[file_path].final_mask[p]
                ELSE \A p \in CellPixels(trace[file_path].prep.labels, lbl) :
                         trace[file_path].final_mask[p] = trace[file_path].ratio_stage[p]

\* an image analysed with the cell band enabled in which one cell is
\* excluded by the band and another keeps its pixels
C7_Witness ==
    \E file_path \in Analysed :
        /\ trace[file_path].settings.cell_eff_checkbox
        /\ trace[file_path].band_excluded # {}
        /\ \E lbl \in trace[file_path].band_excluded :
              \E p \in CellPixels(trace[file_path].prep.labels, lbl) :
                  trace[file_path].ratio_stage[p]
        /\ MaskSet(trace[file_path].final_mask) # {}

\* the settings w with the other upper display threshold
OtherDisplayThresholds(w) ==
    [w EXCEPT !.upper_threshold = IF @ = RInt(100) THEN RInt(50) ELSE RInt(100)]

FirstFormula(w) ==
    IF selected_formulas(w) # <<>> THEN selected_formulas(w)[1] ELSE "FRET/Donor"

\* C8: with the cell band enabled, the provisional map is the map of the
\* first selected formula (FRET/Donor when none is selected) masked by the
\* inclusion mask before the band; the band decision taken from it does not
\* depend on the display thresholds; and every stored map of every selected
\* formula is 0 on all pixels of a cell excluded by that decision.
C8_ProvisionalThenBandThenMaps ==
    \A file_path \in Analysed :
        trace[file_path].settings.cell_eff_checkbox =>
            /\ trace[file_path].temp_eff_map =
                  Masked(calculate_fret_efficiency(
                             trace[file_path].prep.fret, trace[file_path].prep.donor,
                             trace[file_path].prep.acceptor,
                             FirstFormula(trace[file_path].settings)),
                         trace[file_path].ratio_stage)
            /\ trace[file_path].band_excluded =
                  AnalyseImage(trace[file_path].prep, fret,
                               OtherDisplayThresholds(trace[file_path].settings)).band_excluded
            /\ \A formula_name \in DOMAIN trace[file_path].efficiencies.maps :
                  \A lbl \in trace[file_path].band_excluded :
                      \A p \in CellPixels(trace[file_path].prep.labels, lbl) :
                          trace[file_path].efficiencies.maps[formula_name][p] = RZero

\* an image analysed with the cell band enabled and several formulas
\* selected, in which the band excludes one cell and keeps another
C8_Witness ==
    \E file_path \in Analysed :
        /\ trace[file_path].settings.cell_eff_checkbox
        /\ Cardinality(trace[file_path].settings.formulas) >= 2
        /\ trace[file_path].band_excluded # {}
        /\ MaskSet(trace[file_path].final_mask) # {}

-----------------------------------------------------------------------------
(* Properties of the aggregate statistics table (SpecAnalysis) *)

\* the 'all' population of a row: the efficiencies of the row's formula at
\* the pixels of the row's cell that are in the inclusion mask and > 0
AllPopulation(row) ==
    PositiveVals(Masked(calculate_fret_efficiency(
                            trace[row.file_path].prep.fret,
                            trace[row.file_path].prep.donor,
                            trace[row.file_path].prep.acceptor,
                            fret.aggregate_formula),
                        trace[row.file_path].final_mask),
                 CellPixels(trace[row.file_path].prep.labels, row.lbl))

\* the values of the sequence vals that satisfy Test
Those(vals, Test(_)) == SelectSeq(vals, Test)

MeanOrZero(vals) == IF Len(vals) > 0 THEN RMean(vals) ELSE RZero

\* the statistics the specification gives for a row with population all
RowAgrees(row, all, lower_thr, upper_thr) ==
    /\ Len(all) > 0
    /\ row.total_pixels = Len(all)
    /\ row.avg_all = RMean(all)
    /\ row.avg_in_thresh =
          MeanOrZero(Those(all, LAMBDA v : RGe(v, lower_thr) /\ RLe(v, upper_thr)))
    /\ row.percent_below =
          RMul(Rat(Len(Those(all, LAMBDA v : RLt(v, lower_thr))), Len(all)), RInt(100))
    /\ row.percent_above =
          RMul(Rat(Len(Those(all, LAMBDA v : RGt(v, upper_thr))), Len(all)), RInt(100))

\* C9: for every row of the table, Avg-All is the mean over all pixels of
\* the cell that are in the inclusion mask and > 0 (those outside the
\* display band included), Avg-In-Band the mean over those within
\* [lower_thr, upper_thr], %-below and %-above the fractions of that same
\* population below lower_thr and above upper_thr, and the pixel count the
\* size of that population.
C9_RowStatisticsOverAllIncluded ==
    \A i \in 1..Len(table) :
        RowAgrees(table[i], AllPopulation(table[i]),
                  widgets.lower_threshold, widgets.upper_threshold)

\* the pixels of a cell that are > 0 in the stored map the table reads
StoredPositive(file_path, lbl) ==
    {p \in CellPixels(fret.analysis_results[file_path].labels, lbl) :
        RGt(fret.analysis_results[file_path].maps[fret.aggregate_formula][p], RZero)}

\* C10: every row of the table has pixel count >= 1, the count of the > 0
\* pixels of its cell in the stored map, and its cell has an included
\* pixel of efficiency > 0: a cell without such a pixel has no row.
C10_NoRowForEmptyCell ==
    \A i \in 1..Len(table) :
        /\ table[i].total_pixels >= 1
        /\ Len(AllPopulation(table[i])) >= 1
        /\ table[i].total_pixels =
              Cardinality(StoredPositive(table[i].file_path, table[i].lbl))

\* a table with a row for one cell of an analysed image and none for
\* another cell of it, which has no pixel > 0 in the stored map
C10_Witness ==
    /\ table # <<>>
    /\ \E file_path \in Analysed :
          \E lbl \in Labels(trace[file_path].prep.labels) \ {0} :
              /\ StoredPositive(file_path, lbl) = {}
              /\ \A i \in 1..Len(table) :
                    ~(table[i].file_path = file_path /\ table[i].lbl = lbl)

-----------------------------------------------------------------------------
(* FretTab.calculate_fret_efficiency called on its own (SpecEfficiency) *)

\* the values of a pixel of an argument array: float arrays of any sign
ChannelValues == {-1, 0, 1, 4}
FretValues == {0, 1}

\* the arrays have two pixels
EfficiencyCalls ==
    {[op |-> "calculate_fret_efficiency",
      f |-> <<RInt(f1), RInt(f2)>>, d |-> <<RInt(d1), RInt(d2)>>,
      a |-> <<RInt(a1), RInt(a2)>>, formula_name |-> FormulaOrder[i],
      done |-> FALSE, result |-> <<>>] :
        f1 \in FretValues, f2 \in FretValues,
        d1 \in ChannelValues, d2 \in ChannelValues,
        a1 \in ChannelValues, a2 \in ChannelValues,
        i \in 1..Len(FormulaOrder)}

InitEfficiency ==
    /\ tabs = [c \in Channels |-> ConfirmedTab]
    /\ fret = check_fits_confirmed(tabs, InitFret)
    /\ widgets = DefaultSettings
    /\ files = <<>>
    /\ table = <<>>
    /\ trace = <<>>
    /\ call \in EfficiencyCalls
    /\ seg = InitSeg
    /\ config = InitConfig

CallEfficiency ==
    /\ ~call.done
    /\ call' = [call EXCEPT !.done = TRUE,
                            !.result = calculate_fret_efficiency(
                                           call.f, call.d, call.a, call.formula_name)]
    /\ UNCHANGED <<tabs, fret, widgets, files, table, trace, seg, config>>

NextEfficiency == CallEfficiency

SpecEfficiency == InitEfficiency /\ [][NextEfficiency]_vars

\* the denominator the specification names for a formula at a pixel, up to
\* a positive factor: D, A, D*A (the sign of sqrt(D*A) where it is 0, and of
\* its radicand where that is negative), D*A, D+F
NamedDenominator(p) ==
    CASE call.formula_name = "FRET/Donor" -> call.d[p][1]
      [] call.formula_name = "FRET/Acceptor" -> call.a[p][1]
      [] call.formula_name = "Xia" -> call.d[p][1] * call.a[p][1]
      [] call.formula_name = "Gordon" -> call.d[p][1] * call.a[p][1]
      [] call.formula_name = "PixFRET" -> call.d[p][1] + call.f[p][1]

\* C11: for each of the five formulas and every pixel, a denominator of 0 at
\* the pixel gives exactly 0 at the pixel.
C11_ZeroDenominatorGivesZero ==
    call.done =>
        \A p \in Pixels(call.f) :
            NamedDenominator(p) = 0 => call.result[p] = RZero

\* a call in which one pixel has a zero denominator under a FRET value of 1
\* and the other pixel a result other than 0
C11_Witness ==
    /\ call.done
    /\ \E p, q \in Pixels(call.f) :
          /\ NamedDenominator(p) = 0
          /\ call.f[p] = RInt(1)
          /\ call.result[q] # RZero

-----------------------------------------------------------------------------
(* FRET/Donor against FRET/Acceptor (SpecAnalysis) *)

\* C13: when donor and acceptor are equal at every pixel of an analysed
\* image, calculate_fret_efficiency gives the same map for FRET/Donor and
\* for FRET/Acceptor, and the maps run_analysis stores for the two formulas
\* are the same.
C13_EqualChannelsEqualMaps ==
    \A file_path \in Analysed :
        trace[file_path].prep.donor = trace[file_path].prep.acceptor =>
            /\ calculate_fret_efficiency(trace[file_path].prep.fret,
                                         trace[file_path].prep.donor,
                                         trace[file_path].prep.acceptor, "FRET/Donor")
                  = calculate_fret_efficiency(trace[file_path].prep.fret,
                                              trace[file_path].prep.donor,
                                              trace[file_path].prep.acceptor,
                                              "FRET/Acceptor")
            /\ {"FRET/Donor", "FRET/Acceptor"}
                   \subseteq DOMAIN trace[file_path].efficiencies.maps =>
                   trace[file_path].efficiencies.maps["FRET/Donor"]
                       = trace[file_path].efficiencies.maps["FRET/Acceptor"]

\* an image with donor = acceptor at every pixel, analysed with both
\* formulas selected, whose stored FRET/Donor map is not 0 everywhere
C13_Witness ==
    \E file_path \in Analysed :
        /\ trace[file_path].prep.donor = trace[file_path].prep.acceptor
        /\ {"FRET/Donor", "FRET/Acceptor"}
               \subseteq DOMAIN trace[file_path].efficiencies.maps
        /\ \E p \in Pixels(trace[file_path].prep.labels) :
              RGt(trace[file_path].efficiencies.maps["FRET/Donor"][p], RZero)

-----------------------------------------------------------------------------
(* FretTab.load_and_prepare_image with Constant and Linear models
   (SpecCorrection) *)

\* a confirmed fit: the model and its entry of fit_results (Constant b;
\* Linear <<a, b>>, which an unbounded least-squares fit can make negative)
ConfirmedFits ==
    {[model |-> "Constant", coeffs |-> Rat(1, 4)],
     [model |-> "Constant", coeffs |-> RInt(1)],
     [model |-> "Linear", coeffs |-> <<Rat(1, 4), RZero>>],
     [model |-> "Linear", coeffs |-> <<Rat(-1, 4), RInt(1)>>]}

CorrectionCalls ==
    {[op |-> "load_and_prepare_image", file |-> file,
      donor_model |-> dm.model, donor_coeffs |-> dm.coeffs,
      acceptor_model |-> am.model, acceptor_coeffs |-> am.coeffs,
      done |-> FALSE, result |-> <<>>] :
        file \in {fl \in AnalysisFiles : fl.frames[1] = <<1, 1, 0>>},
        dm \in ConfirmedFits, am \in ConfirmedFits}

InitCorrection ==
    /\ tabs = [c \in Channels |-> ConfirmedTab]
    /\ fret = check_fits_confirmed(tabs, InitFret)
    /\ widgets = DefaultSettings
    /\ files = <<>>
    /\ table = <<>>
    /\ trace = <<>>
    /\ call \in CorrectionCalls
    /\ seg = InitSeg
    /\ config = InitConfig

\* the call reads donor_model, donor_coeffs, acceptor_model and
\* acceptor_coeffs of the tab and bg_kernel of the widgets
CallCorrection ==
    /\ ~call.done
    /\ call' = [call EXCEPT !.done = TRUE,
                            !.result = load_and_prepare_image(call.file, call, widgets)]
    /\ UNCHANGED <<tabs, fret, widgets, files, table, trace, seg, config>>

NextCorrection == CallCorrection

SpecCorrection == InitCorrection /\ [][NextCorrection]_vars

\* v(x): b for Constant(b), a*x + b for Linear(a, b)
ModelValue(model, coeffs, x) ==
    IF model = "Constant" THEN coeffs
    ELSE RAdd(RMul(coeffs[1], x), coeffs[2])

\* fret - donor*v_d(donor) - acceptor*v_a(acceptor) at pixel p of the
\* background-subtracted channels of the call's result
Uncorrected(p) ==
    RSub(RSub(call.result.fret_sub[p],
              RMul(call.result.donor[p],
                   ModelValue(call.donor_model, call.donor_coeffs,
                              call.result.donor[p]))),
         RMul(call.result.acceptor[p],
              ModelValue(call.acceptor_model, call.acceptor_coeffs,
                         call.result.acceptor[p])))

\* C14: for the Constant and Linear models, corrected_fret is at every pixel
\* max(0, fret - donor*v_d(donor) - acceptor*v_a(acceptor)) over the
\* background-subtracted channels, and is never negative.
C14_CorrectedFret ==
    call.done =>
        \A p \in Pixels(call.result.fret) :
            /\ call.result.fret[p] =
                  IF RLt(Uncorrected(p), RZero) THEN RZero ELSE Uncorrected(p)
            /\ RGe(call.result.fret[p], RZero)

\* a call with a Linear donor model and a Constant acceptor model in which
\* the correction is clamped at one pixel and positive at another
C14_Witness ==
    /\ call.done
    /\ call.donor_model = "Linear"
    /\ call.acceptor_model = "Constant"
    /\ \E p, q \in Pixels(call.result.fret) :
          /\ RLt(Uncorrected(p), RZero)
          /\ RGt(call.result.fret[q], RZero)

-----------------------------------------------------------------------------
(* The two subtract_background functions called on their own
   (SpecBackground) *)

MaxKernel == 4

\* one-row channel images of two or three pixels
ChannelRows(n) == [1..n -> {RInt(0), RInt(1), RInt(4)}]

\* FretTab.subtract_background(image, kernel_size), and
\* bt_calculation.subtract_background(image2, image, kernel_size) with
\* image2 the blurred image
BackgroundCalls ==
    {[op |-> "FretTab.subtract_background", image |-> image, image2 |-> image,
      kernel_size |-> k, done |-> FALSE, result |-> <<>>] :
        image \in ChannelRows(2) \cup ChannelRows(3), k \in 1..MaxKernel}
    \cup
    {[op |-> "bt_calculation.subtract_background", image |-> image, image2 |-> image2,
      kernel_size |-> k, done |-> FALSE, result |-> <<>>] :
        image \in ChannelRows(2), image2 \in ChannelRows(2), k \in 1..MaxKernel}

InitBackground ==
    /\ tabs = [c \in Channels |-> InitTab]
    /\ fret = InitFret
    /\ widgets = DefaultSettings
    /\ files = <<>>
    /\ table = <<>>
    /\ trace = <<>>
    /\ call \in BackgroundCalls
    /\ seg = InitSeg
    /\ config = InitConfig

CallFretSubtractBackground ==
    /\ ~call.done
    /\ call.op = "FretTab.subtract_background"
    /\ call' = [call EXCEPT !.done = TRUE,
                            !.result = subtract_background(call.image, call.kernel_size)]
    /\ UNCHANGED <<tabs, fret, widgets, files, table, trace, seg, config>>

CallBtSubtractBackground ==
    /\ ~call.done
    /\ call.op = "bt_calculation.subtract_background"
    /\ call' = [call EXCEPT !.done = TRUE,
                            !.result = [bg_sub |-> bt_subtract_background(
                                                       call.image2, call.image,
                                                       call.kernel_size)]]
    /\ UNCHANGED <<tabs, fret, widgets, files, table, trace, seg, config>>

NextBackground ==
    \/ CallFretSubtractBackground
    \/ CallBtSubtractBackground

SpecBackground == InitBackground /\ [][NextBackground]_vars

Reverse(row) == [i \in 1..Len(row) |-> row[Len(row) + 1 - i]]

\* the row extended by one reflection on each side (d c b a | a b c d |
\* d c b a), enough for windows of half-width up to the row's length
Extended(row) == Reverse(row) \o row \o Reverse(row)

\* the mean of the window of k columns placed at column p of the row
WindowMean(row, k, p) ==
    RDiv(RSumSeq([j \in 1..k |-> Extended(row)[Len(row) + p - (k \div 2) + j - 1]]),
         RInt(k))

\* bg is the least of the window means
IsBackground(bg, row, k) ==
    /\ \E p \in 1..Len(row) : bg = WindowMean(row, k, p)
    /\ \A p \in 1..Len(row) : RLe(bg, WindowMean(row, k, p))

\* C15: both functions return an image without negative value, pixelwise
\* max(0, image - bg) for the image they subtract from, where bg is the
\* minimum over the window positions of the k-wide edge-reflected local
\* mean; FretTab.subtract_background returns this bg as well.
C15_BackgroundSubtraction ==
    call.done =>
        /\ \A p \in 1..Len(call.image2) :
              /\ RGe(call.result.bg_sub[p], RZero)
              /\ \E bg \in {WindowMean(call.image, call.kernel_size, q) :
                               q \in 1..Len(call.image)} :
                    /\ IsBackground(bg, call.image, call.kernel_size)
                    /\ call.result.bg_sub[p] =
                          IF RLt(call.image2[p], bg) THEN RZero
                          ELSE RSub(call.image2[p], bg)
        /\ call.op = "FretTab.subtract_background" =>
              IsBackground(call.result.min_mean, call.image, call.kernel_size)

\* a call of FretTab.subtract_background with a window wider than one
\* pixel that returns a background > 0 and clamps a pixel below it
C15_Witness ==
    /\ call.done
    /\ call.op = "FretTab.subtract_background"
    /\ call.kernel_size >= 2
    /\ RGt(call.result.min_mean, RZero)
    /\ \E p \in 1..Len(call.image) : RLt(call.image[p], call.result.min_mean)

-----------------------------------------------------------------------------
(* The donor tab's run_analysis with fit_and_plot, and confirm_fit
   (SpecFit) *)

MaxPairs == 3
MaxCalls == 2

\* <<intensity, ratio>> of a masked pixel: no intensity, no ratio, and two
\* pixels that pass the mask
PairValues ==
    {<<RZero, Rat(1, 4)>>, <<RInt(1), RZero>>,
     <<RInt(1), Rat(1, 4)>>, <<RInt(2), Rat(1, 2)>>}

\* sampling_check and sample_size_spin
SamplingSettings ==
    {[use_sampling |-> FALSE, sample_size |-> 1],
     [use_sampling |-> TRUE, sample_size |-> 1],
     [use_sampling |-> TRUE, sample_size |-> 2]}

\* curve_fit(linear, ...)
LinearFits ==
    {[raised |-> TRUE, popt |-> <<>>],
     [raised |-> FALSE, popt |-> <<Rat(1, 4), RZero>>]}

\* curve_fit(exponential, ..., bounds=([0, 0, 0], [inf, inf, 1])): raised,
\* or (a, k, b) within the bounds, or not finite
ExponentialFits ==
    {[raised |-> TRUE, popt |-> <<>>],
     [raised |-> FALSE, popt |-> <<Rat(1, 4), RInt(1), RInt(1)>>],
     [raised |-> FALSE, popt |-> <<RZero, RInt(1), RZero>>],
     [raised |-> FALSE, popt |-> <<Rat(1, 4), RZero, Rat(1, 2)>>],
     [raised |-> FALSE, popt |-> <<RNaN, RInt(1), RZero>>]}

\* the generator's state before the first call
RngStates == {1}

FitCalls ==
    {[op |-> "fit_and_plot",
      x_data |-> [i \in 1..MaxPairs |-> prs[i][1]],
      y_data |-> [i \in 1..MaxPairs |-> prs[i][2]],
      use_sampling |-> ss.use_sampling, sample_size |-> ss.sample_size,
      linear_fit |-> lf, exponential_fit |-> ef,
      rng |-> rng, results |-> <<>>] :
        prs \in [1..MaxPairs -> PairValues], ss \in SamplingSettings,
        lf \in LinearFits, ef \in ExponentialFits, rng \in RngStates}

InitFit ==
    /\ tabs = [c \in Channels |->
                  IF c = "S1" THEN [InitTab EXCEPT !.image_paths = <<1>>] ELSE InitTab]
    /\ fret = InitFret
    /\ widgets = DefaultSettings
    /\ files = <<>>
    /\ table = <<>>
    /\ trace = <<>>
    /\ call \in FitCalls
    /\ seg = InitSeg
    /\ config = InitConfig

\* what run_analysis makes of the result r of fit_and_plot
RunOutcome(r) ==
    IF r.status = "ok" THEN [status |-> "ok", fits |-> r.coeffs]
    ELSE [status |-> "fit_error"]

\* the rest of run_analysis on the result r of fit_and_plot
RunStep(r) ==
    /\ tabs' = AfterRunAnalysis(tabs, "S1", RunOutcome(r))
    /\ call' = [call EXCEPT !.rng = r.rng, !.results = Append(@, r)]
    /\ UNCHANGED <<fret, widgets, files, table, trace, seg, config>>

\* AnalysisChannelTab.run_analysis of the donor tab, the masked pixels of
\* its stacks being x_data, y_data
FitRunAnalysis ==
    /\ tabs["S1"].controls_enabled
    /\ Len(call.results) < MaxCalls
    /\ RunStep(fit_and_plot(call.x_data, call.y_data, call.use_sampling,
                            call.sample_size, call.rng, call.linear_fit,
                            call.exponential_fit))

\* TabSelectModel and TabConfirmFit leave call unchanged
NextFit ==
    \/ FitRunAnalysis
    \/ \E model \in Models : TabSelectModel("S1", model)
    \/ TabConfirmFit("S1")

SpecFit == InitFit /\ [][NextFit]_vars

\* the results of the calls of fit_and_plot that returned
Returned == {i \in 1..Len(call.results) : call.results[i].status = "ok"}

\* None, or (a, k, b) finite with a > 0, k > 0 and 0 <= b <= 1
ValidExponentialEntry(entry) ==
    \/ entry = None
    \/ /\ \A j \in 1..3 : IsFinite(entry[j])
       /\ RGt(entry[1], RZero)
       /\ RGt(entry[2], RZero)
       /\ RGe(entry[3], RZero)
       /\ RLe(entry[3], RInt(1))

\* C16: the entry 'Exponential' of the dictionary fit_and_plot returns, and
\* of the fit_results the tab stores, is None or a finite triple (a, k, b)
\* with a > 0, k > 0 and 0 <= b <= 1; and a tab's fit is confirmed only
\* for a model whose entry is not None.
C16_ExponentialEntryValid ==
    /\ \A i \in Returned : ValidExponentialEntry(call.results[i].coeffs.Exponential)
    /\ tabs["S1"].fit_results # <<>> =>
          ValidExponentialEntry(tabs["S1"].fit_results.Exponential)
    /\ tabs["S1"].fit_is_confirmed =>
          tabs["S1"].fit_results[tabs["S1"].selected_fit_model] # None

\* curve_fit returned a = 0 for the exponential, the entry is None, and
\* confirm_fit has refused the Linear model, whose fit raised
C16_Witness ==
    /\ Returned # {}
    /\ ~call.exponential_fit.raised
    /\ call.exponential_fit.popt[1] = RZero
    /\ tabs["S1"].fit_results.Exponential = None
    /\ tabs["S1"].selected_fit_model = "Linear"
    /\ tabs["S1"].fit_results.Linear = None
    /\ ~tabs["S1"].fit_is_confirmed

\* the pairs of the arguments with intensity > 0 and ratio > 0, in order,
\* from index i on
RECURSIVE KeepPositive(_, _, _)
KeepPositive(x_data, y_data, i) ==
    IF i > Len(x_data) THEN <<>>
    ELSE IF RGt(x_data[i], RZero) /\ RGt(y_data[i], RZero)
    THEN <<<<x_data[i], y_data[i]>>>> \o KeepPositive(x_data, y_data, i + 1)
    ELSE KeepPositive(x_data, y_data, i + 1)

\* the population of the call in progress, and whether it is sampled
CallPopulation == KeepPositive(call.x_data, call.y_data, 1)

CallSampled == call.use_sampling /\ Len(CallPopulation) > call.sample_size

\* C17: the models are fitted over pairs with intensity > 0 and ratio > 0
\* only, all of them when no sampling takes place and some of them
\* otherwise, and the Constant coefficient is the arithmetic mean of the
\* ratios of the fitted pairs.
C17_FitOverPositivePairs ==
    \A i \in Returned :
        /\ \A j \in 1..Len(call.results[i].data) :
              /\ RGt(call.results[i].data[j][1], RZero)
              /\ RGt(call.results[i].data[j][2], RZero)
              /\ \E p \in 1..Len(CallPopulation) :
                    call.results[i].data[j] = CallPopulation[p]
        /\ ~CallSampled => call.results[i].data = CallPopulation
        /\ call.results[i].coeffs.Constant =
              RMean([j \in 1..Len(call.results[i].data) |-> call.results[i].data[j][2]])

\* a pair without intensity is left out, and the Constant coefficient 3/8
\* is the mean of the ratios 1/4 and 1/2 of the two pairs that are fitted
C17_Witness ==
    /\ Returned # {}
    /\ \E p \in 1..Len(call.x_data) : call.x_data[p] = RZero /\ RGt(call.y_data[p], RZero)
    /\ Len(call.results[1].data) = 2
    /\ call.results[1].coeffs.Constant = Rat(3, 8)

\* data consists of the pairs of the population at size distinct indices
DrawnWithoutReplacement(data, population, size) ==
    /\ Len(data) = size
    /\ \E idx \in [1..size -> 1..Len(population)] :
          /\ \A j, k \in 1..size : j # k => idx[j] # idx[k]
          /\ \A j \in 1..size : data[j] = population[idx[j]]

\* C18: when sampling is enabled and the population is larger than
\* sample_size, exactly sample_size pairs at distinct indices are fitted,
\* the same pairs are displayed, and every call with the same arguments
\* fits the same pairs; otherwise the whole population is both displayed
\* and fitted.
C18_SamplingIsFixedSubset ==
    /\ \A i \in Returned :
          /\ call.results[i].plot = call.results[i].data
          /\ CallSampled =>
                DrawnWithoutReplacement(call.results[i].data, CallPopulation,
                                        call.sample_size)
          /\ ~CallSampled => call.results[i].data = CallPopulation
    /\ \A i, k \in Returned : call.results[i].data = call.results[k].data

\* two calls have sampled two of three pairs that are not all the same
C18_Witness ==
    /\ Len(call.results) = 2
    /\ Returned = {1, 2}
    /\ CallSampled
    /\ Len(CallPopulation) = 3
    /\ call.sample_size = 2
    /\ CallPopulation[2] # CallPopulation[3]

\* C19: whatever becomes of the Linear and of the Exponential fit, a call
\* of fit_and_plot on a population that is not empty returns; the result
\* has the Constant coefficient; its Linear entry is None if the linear fit
\* raised and the fitted parameters otherwise, whatever the exponential
\* fit did; and its Exponential entry is None if the exponential fit raised
\* (the evaluations used up is one way to) or was rejected, whatever the
\* linear fit did.
C19_FitFailuresAreIsolated ==
    \A i \in 1..Len(call.results) :
        CallPopulation # <<>> =>
            /\ call.results[i].status = "ok"
            /\ IsFinite(call.results[i].coeffs.Constant)
            /\ call.results[i].coeffs.Linear =
                  (IF call.linear_fit.raised THEN None ELSE call.linear_fit.popt)
            /\ call.exponential_fit.raised =>
                  call.results[i].coeffs.Exponential = None
            /\ call.results[i].coeffs.Exponential # None =>
                  call.results[i].coeffs.Exponential = call.exponential_fit.popt

\* the exponential fit raised, and the call returned the Constant and the
\* Linear coefficients
C19_Witness ==
    /\ Returned # {}
    /\ call.exponential_fit.raised
    /\ ~call.linear_fit.raised
    /\ call.results[1].coeffs.Exponential = None
    /\ call.results[1].coeffs.Linear = call.linear_fit.popt
    /\ IsFinite(call.results[1].coeffs.Constant)

-----------------------------------------------------------------------------
(* Properties of a batch of FretTab.run_analysis (Spec) *)

\* the images run_analysis processes
Batch(analyze_all, current_row) ==
    IF analyze_all THEN {fret.image_paths[i] : i \in 1..Len(fret.image_paths)}
    ELSE IF current_row \notin 1..Len(fret.image_paths) THEN {}
    ELSE {fret.image_paths[current_row]}

\* the image of file_path is processed without error
ProcessedWithoutError(file_path) ==
    load_and_prepare_image(files[file_path], fret, widgets).status = "ok"

\* what the analysis of the image of file_path alone stores
AnalysedAlone(file_path) ==
    AnalyseImage(load_and_prepare_image(files[file_path], fret, widgets),
                 fret, widgets).efficiencies

\* C20: after a run of FretTab.run_analysis the run button is enabled;
\* each image of the batch that is processed without error has the entry
\* in analysis_results that its own analysis produces, whatever became of
\* the images before it in the list; no image of the batch whose processing
\* failed has an entry; and the entries of the images outside the batch are
\* those from before the run, or none when all images are analysed.  (A
\* step of FretRunAnalysis leaves tabs, files and image_paths unchanged and
\* its trace' has the batch as domain: the first conjuncts tell such a step
\* from the others at little cost.)
C20_BatchIsolatesFailures ==
    [][\A analyze_all \in BOOLEAN, current_row \in 0..MaxImages :
          (/\ tabs' = tabs /\ files' = files
           /\ fret'.image_paths = fret.image_paths
           /\ Batch(analyze_all, current_row) # {} =>
                 DOMAIN trace' = Batch(analyze_all, current_row)
           /\ FretRunAnalysis(analyze_all, current_row)) =>
              /\ fret'.run_button
              /\ \A file_path \in Batch(analyze_all, current_row) :
                    IF ProcessedWithoutError(file_path)
                    THEN /\ file_path \in DOMAIN fret'.analysis_results
                         /\ fret'.analysis_results[file_path] = AnalysedAlone(file_path)
                    ELSE file_path \notin DOMAIN fret'.analysis_results
              /\ Batch(analyze_all, current_row) # {} =>
                    \A file_path \in (1..MaxImages) \ Batch(analyze_all, current_row) :
                        IF ~analyze_all /\ file_path \in DOMAIN fret.analysis_results
                        THEN /\ file_path \in DOMAIN fret'.analysis_results
                             /\ fret'.analysis_results[file_path] =
                                   fret.analysis_results[file_path]
                        ELSE file_path \notin DOMAIN fret'.analysis_results]_vars

\* a batch of two images, the first of which failed: the second one was
\* processed and has its entry, the first one has none
C20_Witness ==
    /\ fret.image_paths = <<2, 1>>
    /\ DOMAIN trace = {1, 2}
    /\ trace[2].status = "raise"
    /\ trace[1].status = "ok"
    /\ DOMAIN fret.analysis_results = {1}
    /\ fret.run_button

-----------------------------------------------------------------------------
(* FretTab.run_analysis on one file of any format and frame count
   (SpecLoad) *)

MaxFrames == 5

\* frame i of a stack of three pixels whose brightest pixel is v: labels,
\* then channels numbered by their position
LoadFrame(i, v) == IF i = 1 THEN <<1, 1, 0>> ELSE <<v + i, i, 1>>

\* files of the three extensions the code tells apart, with 2 or 3
\* dimensions and 3..MaxFrames frames
LoadFiles ==
    {[ext |-> ext, ndim |-> ndim, frames |-> [i \in 1..n |-> LoadFrame(i, v)]] :
        ext \in {"tif", "czi", "png"}, ndim \in {2, 3}, n \in 3..MaxFrames,
        v \in 1..4}

InitLoad ==
    /\ tabs = [c \in Channels |-> ConfirmedTab]
    /\ fret = [check_fits_confirmed(tabs, InitFret) EXCEPT !.image_paths = <<1>>, !.list_widget = <<1>>,
                                                          !.tab_enabled = TRUE]
    /\ widgets = DefaultSettings
    /\ files \in {[path \in {1} |-> file] : file \in LoadFiles}
    /\ table = <<>>
    /\ trace = <<>>
    /\ call = None
    /\ seg = InitSeg
    /\ config = InitConfig

NextLoad == FretRunAnalysis(TRUE, 0)

SpecLoad == InitLoad /\ [][NextLoad]_vars

\* C21: a stack is analysed only if it has exactly 4 frames, and then its
\* frames are read as labels, FRET, donor, acceptor in this order; a stack
\* of any other frame count is rejected and has no entry in
\* analysis_results.
C21_ExactlyFourFrames ==
    \A file_path \in DOMAIN trace :
        IF Len(files[file_path].frames) = 4
        THEN trace[file_path].status = "ok" =>
                /\ trace[file_path].prep.labels = files[file_path].frames[1]
                /\ file_path \in DOMAIN fret.analysis_results
        ELSE /\ trace[file_path].status # "ok"
             /\ file_path \notin DOMAIN fret.analysis_results

-----------------------------------------------------------------------------
(* process_donor_only_samples and process_acceptor_only_samples called on
   their own (SpecSamples) *)

MaxStacks == 2

\* frame i of a calibration stack of three pixels: the mask, a FRET frame,
\* two channel frames that differ, and frames that nothing should read
CalFrame(i, mask, fret_frame) ==
    CASE i = 1 -> mask
      [] i = 2 -> fret_frame
      [] i = 3 -> <<9, 6, 0>>
      [] i = 4 -> <<6, 9, 0>>
      [] OTHER -> <<1, 1, 1>>

\* stacks of 2..MaxFrames frames
CalStacks ==
    {[i \in 1..n |-> CalFrame(i, mask, fret_frame)] :
        n \in 2..MaxFrames, mask \in {<<1, 2, 0>>, <<0, 1, 1>>},
        fret_frame \in {<<6, 6, 0>>, <<3, 9, 0>>}}

SampleCalls ==
    {[op |-> op, stacks |-> stacks, done |-> FALSE, result |-> <<>>] :
        op \in {"process_donor_only_samples", "process_acceptor_only_samples"},
        stacks \in UNION {[1..n -> CalStacks] : n \in 1..MaxStacks}}

InitSamples ==
    /\ tabs = [c \in Channels |-> InitTab]
    /\ fret = InitFret
    /\ widgets = DefaultSettings
    /\ files = <<>>
    /\ table = <<>>
    /\ trace = <<>>
    /\ call \in SampleCalls
    /\ seg = InitSeg
    /\ config = InitConfig

CallDonorOnlySamples ==
    /\ ~call.done
    /\ call.op = "process_donor_only_samples"
    /\ call' = [call EXCEPT !.done = TRUE,
                            !.result = process_donor_only_samples(call.stacks)]
    /\ UNCHANGED <<tabs, fret, widgets, files, table, trace, seg, config>>

CallAcceptorOnlySamples ==
    /\ ~call.done
    /\ call.op = "process_acceptor_only_samples"
    /\ call' = [call EXCEPT !.done = TRUE,
                            !.result = process_acceptor_only_samples(call.stacks)]
    /\ UNCHANGED <<tabs, fret, widgets, files, table, trace, seg, config>>

NextSamples ==
    \/ CallDonorOnlySamples
    \/ CallAcceptorOnlySamples

SpecSamples == InitSamples /\ [][NextSamples]_vars

\* the channel frame of stack k of the call, as the claim names it: frame
\* 2 (counted from 0) for the donor tab and for a 3-frame stack, frame 3 for
\* a 4-frame stack of the acceptor tab
ClaimedChannel(k) ==
    IF call.op = "process_acceptor_only_samples" /\ Len(call.stacks[k]) = 4
    THEN ToFloat(call.stacks[k][4])
    ELSE ToFloat(call.stacks[k][3])

\* the pair <<intensity, ratio>> of pixel p of stack k: the channel frame
\* and frame 1 less their backgrounds, and their quotient, 0 where the
\* intensity is 0
ClaimedPair(k, p) ==
    LET x == bt_subtract_background(ClaimedChannel(k), ClaimedChannel(k),
                                    DefaultKernelSize)[p]
        f == bt_subtract_background(ToFloat(call.stacks[k][2]),
                                    ToFloat(call.stacks[k][2]), DefaultKernelSize)[p]
    IN  <<x, IF x = RZero THEN RZero ELSE RDiv(f, x)>>

RECURSIVE ClaimedPairsFrom(_, _)
\* the pairs of the pixels with mask > 0 and ratio < 1, stack by stack,
\* from pixel p of stack k on
ClaimedPairsFrom(k, p) ==
    IF k > Len(call.stacks) THEN <<>>
    ELSE IF p > Len(call.stacks[k][1]) THEN ClaimedPairsFrom(k + 1, 1)
    ELSE IF call.stacks[k][1][p] > 0 /\ RLt(ClaimedPair(k, p)[2], RInt(1))
    THEN <<ClaimedPair(k, p)>> \o ClaimedPairsFrom(k, p + 1)
    ELSE ClaimedPairsFrom(k, p + 1)

-----------------------------------------------------------------------------
(* FretTab._plot_distribution_analysis (SpecDistribution) *)

\* max_components_spinbox.setRange(1, 5)
MaxComponentsRange == 5

MaxValues == 3
MaxPeaks == 3

ValidValues_All(cell_values) == cell_values

\* cell_values[np.isfinite(cell_values)]
ValidValues(cell_values) == SelectSeq(cell_values, IsFinite)

\* n_components of lines 4079-4084 for len(peaks) = n_peaks
NComponents(n_peaks, max_components) ==
    LET n_components ==
            IF (IF 1 > n_peaks THEN 1 ELSE n_peaks) < max_components
            THEN (IF 1 > n_peaks THEN 1 ELSE n_peaks)
            ELSE max_components
    IN  IF n_peaks >= 2 /\ n_components = 1 THEN 2 ELSE n_components

\* lines 4086-4181 for the valid values and the n_components of the
\* mixture: GaussianMixture.fit raises ValueError for fewer samples than
\* components, and gmm.predict raises for a value that is not finite; the
\* except clause turns both into (None, None).  The model keeps of gmm its
\* number of components and of component_assignments its shape.
FitMixture(cell_values, valid_values, n_components) ==
    IF Len(valid_values) < n_components \/ \E i \in 1..Len(cell_values) : ~IsFinite(cell_values[i])
    THEN [gmm |-> None, component_assignments |-> None,
          n_components |-> n_components, text |-> "Error in analysis"]
    ELSE [gmm |-> <<n_components>>,
          component_assignments |-> [i \in 1..Len(cell_values) |-> 0],
          n_components |-> n_components, text |-> ""]

\* lines 4055-4084 on the valid values
ValidStep(cell_values, valid_values, max_components, n_peaks) ==
    IF Len(valid_values) < 2
    THEN [gmm |-> None, component_assignments |-> None, n_components |-> 0,
          text |-> "Error in analysis: Not enough valid data points"]
    ELSE FitMixture(cell_values, valid_values, NComponents(n_peaks, max_components))

\* _plot_distribution_analysis(ax, cell_values, max_components) with find_peaks
\* returning n_peaks peaks; text is what ax.text displays, n_components
\* the number of components of the GaussianMixture that is constructed (0:
\* none is)
plot_distribution_analysis(distribution_enabled, cell_values, max_components, n_peaks) ==
    IF ~distribution_enabled
    THEN [gmm |-> None, component_assignments |-> None, n_components |-> 0,
          text |-> ""]
    ELSE IF Len(cell_values) < 2
    THEN [gmm |-> None, component_assignments |-> None, n_components |-> 0,
          text |-> "Not enough data points for analysis"]
    ELSE ValidStep(cell_values, ValidValues(cell_values), max_components, n_peaks)

\* efficiencies of a cell: three finite values and one that is not
CellValues == {RInt(10), RInt(50), RInt(90), RNaN}

\* find_peaks finds no more peaks in the smoothed histogram than the cell
\* has distinct finite values
PeakCounts(cell_values) ==
    {n \in 0..MaxPeaks :
        n <= Cardinality({cell_values[i] : i \in 1..Len(cell_values)} \ {RNaN})}

DistributionCalls ==
    {[op |-> "_plot_distribution_analysis", distribution_enabled |-> en,
      cell_values |-> cp[1], max_components |-> mc, n_peaks |-> cp[2],
      done |-> FALSE, result |-> <<>>] :
        en \in BOOLEAN,
        cp \in {vp \in (UNION {[1..n -> CellValues] : n \in 0..MaxValues}) \X (0..MaxPeaks) :
                   vp[2] \in PeakCounts(vp[1])},
        mc \in 1..MaxComponentsRange}

InitDistribution ==
    /\ tabs = [c \in Channels |-> InitTab]
    /\ fret = InitFret
    /\ widgets = DefaultSettings
    /\ files = <<>>
    /\ table = <<>>
    /\ trace = <<>>
    /\ call \in DistributionCalls
    /\ seg = InitSeg
    /\ config = InitConfig

CallPlotDistributionAnalysis ==
    /\ ~call.done
    /\ call' = [call EXCEPT
                  !.done = TRUE,
                  !.result = plot_distribution_analysis(call.distribution_enabled,
                                                        call.cell_values,
                                                        call.max_components,
                                                        call.n_peaks)]
    /\ UNCHANGED <<tabs, fret, widgets, files, table, trace, seg, config>>

NextDistribution == CallPlotDistributionAnalysis

SpecDistribution == InitDistribution /\ [][NextDistribution]_vars

\* C23: the number of components of the mixture is within
\* 1..max_components for every number of peaks and every max_components,
\* and is at least 2 when two or more peaks are found and max_components
\* is at least 2.
C23_ComponentsWithinRange ==
    (call.done /\ call.result.n_components # 0) =>
        /\ call.result.n_components >= 1
        /\ call.result.n_components <= call.max_components
        /\ (call.n_peaks >= 2 /\ call.max_components >= 2) =>
              call.result.n_components >= 2

\* the finite values of the call
FiniteCount == Cardinality({i \in 1..Len(call.cell_values) : call.cell_values[i][2] # 0})

\* C24: with distribution analysis enabled, a call with fewer than 2
\* values, or fewer than 2 finite values, constructs no mixture, displays
\* a message and returns (None, None); a call returns a model only for 2
\* or more finite values.
C24_InsufficientData ==
    (call.done /\ call.distribution_enabled) =>
        /\ FiniteCount < 2 =>
              /\ call.result.gmm = None
              /\ call.result.component_assignments = None
              /\ call.result.n_components = 0
              /\ call.result.text # ""
        /\ call.result.gmm # None => FiniteCount >= 2

\* a cell of two values one of which is not finite: no mixture, a message
C24_Witness ==
    /\ call.done
    /\ call.distribution_enabled
    /\ Len(call.cell_values) = 2
    /\ FiniteCount = 1
    /\ call.result.gmm = None
    /\ call.result.n_components = 0
    /\ call.result.text = "Error in analysis: Not enough valid data points"

-----------------------------------------------------------------------------
(* The two calibration tabs under every operation of theirs
   (SpecCalibration) *)

\* two dictionaries that fit_and_plot returns for different populations
CalibrationFits ==
    FitOutcomes \cup
    {[Constant |-> <<1, 2>>,
      Linear |-> << <<1, 4>>, <<0, 1>> >>,
      Exponential |-> None]}

\* the parameters of a tab in a file that save_parameters wrote
SavedParams ==
    {[fit_results |-> fits, selected_fit_model |-> "Constant"] : fits \in CalibrationFits}

NextCalibration ==
    \/ \E c \in Channels : TabAddImage(c)
    \/ \E c \in Channels, model \in ClickedModels : TabSelectModel(c, model)
    \/ \E c \in Channels,
          outcome \in [status : {"ok"}, fits : CalibrationFits] \cup {[status |-> "error"]} :
          TabRunAnalysis(c, outcome)
    \/ \E c \in Channels : TabConfirmFit(c)
    \/ \E c \in Channels : TabResetAnalysis(c)
    \/ \E c \in Channels : TabZoomPan(c)
    \/ \E c \in Channels, outcome \in RefitOutcomes(CalibrationFits) :
          TabZoomTimeout(c, outcome)
    \/ \E c \in Channels, outcome \in RefitOutcomes(CalibrationFits) :
          TabApplyThresholdsAndRefit(c, outcome)
    \/ \E loaded_params \in [donor_params : SavedParams, acceptor_params : SavedParams] :
          LoadParameters(loaded_params)

SpecCalibration == Init /\ [][NextCalibration]_vars

\* C25: from one state in which a tab's fit is confirmed to the next such
\* state, the tab's fit_results and selected_fit_model do not change, and
\* the entry of the selected model is not None.
C25_ConfirmedFitIsFrozen ==
    [][\A c \in Channels :
          (tabs[c].fit_is_confirmed /\ tabs'[c].fit_is_confirmed) =>
              /\ tabs'[c].fit_results = tabs[c].fit_results
              /\ tabs'[c].selected_fit_model = tabs[c].selected_fit_model
              /\ tabs'[c].fit_results[tabs'[c].selected_fit_model] # None]_vars

\* C26: whenever both fits are confirmed, the FRET tab's correction
\* parameters are the selected models of the two tabs and their entries of
\* fit_results.
C26_ParametersEqualConfirmedFits ==
    (tabs["S1"].fit_is_confirmed /\ tabs["S2"].fit_is_confirmed) =>
        /\ fret.donor_model = tabs["S1"].selected_fit_model
        /\ fret.donor_coeffs = tabs["S1"].fit_results[tabs["S1"].selected_fit_model]
        /\ fret.acceptor_model = tabs["S2"].selected_fit_model
        /\ fret.acceptor_coeffs = tabs["S2"].fit_results[tabs["S2"].selected_fit_model]

-----------------------------------------------------------------------------
(* The FRET tab's image list under the batch transfer *)

\* The application with both fits confirmed, no image in either tab
InitBatch ==
    /\ tabs = [c \in Channels |-> ConfirmedTab]
    /\ fret = check_fits_confirmed(tabs, InitFret)
    /\ widgets = DefaultSettings
    /\ files = [path \in 1..MaxImages |-> ImageFile(path)]
    /\ table = <<>>
    /\ trace = <<>>
    /\ call = None
    /\ seg = InitSeg
    /\ config = InitConfig

\* The user's actions in the two tabs, the steps of the worker thread and
\* the delivery of its signals, interleaved
NextBatch ==
    \/ \E file_path \in RawImages : SegLoadImages(file_path)
    \/ \E row \in 1..MaxImages : SegRemoveSelectedImages(row)
    \/ BatchSegmentAndTransfer
    \/ WorkerBegin
    \/ WorkerNextImage
    \/ \E outcome \in SegmentationOutcomes : WorkerSegment(outcome)
    \/ WorkerTransferCheck
    \/ WorkerTransferAppend
    \/ WorkerTransferAddItem
    \/ DeliverSignal
    \/ InputAccepted /\ \E file_path \in 1..MaxImages : FretAddImages(file_path)
    \/ InputAccepted /\ \E row \in 1..MaxImages + 1 : FretRemoveImage(row)
    \/ InputAccepted /\ FretResetTab
    \/ InputAccepted /\ \E analyze_all \in BOOLEAN, current_row \in 0..MaxImages :
          FretRunAnalysis(analyze_all, current_row)

SpecBatch == InitBatch /\ [][NextBatch]_vars

\* no path occurs twice in the sequence of paths
NoDuplicates(paths) ==
    \A i, j \in 1..Len(paths) : paths[i] = paths[j] => i = j

\* no call of transfer_to_fret is between its append and its return
TransferInProgress == seg.worker.pc \in {"append", "add_item"}

\* C27: after any sequence of add_image_paths, remove_image, run_analysis,
\* reset_tab and transfer_to_fret, image_paths holds no path twice, the list
\* widget has one row per entry of image_paths in the same order, and every
\* key of analysis_results is an element of image_paths.
C27_ImageListConsistent ==
    ~TransferInProgress =>
        /\ NoDuplicates(fret.image_paths)
        /\ fret.list_widget = fret.image_paths
        /\ \A key \in DOMAIN fret.analysis_results :
              \E i \in 1..Len(fret.image_paths) : fret.image_paths[i] = key

\* C30: while the BatchWorker is running, the segmentation tab's control
\* buttons stay disabled.
C30_ButtonsDisabledWhileRunning ==
    WorkerRunning => ~seg.buttons

-----------------------------------------------------------------------------
(* ConfigManager under every sequence of its operations *)

\* The files a manager finds at start: none, or one a previous session saved
SavedFiles ==
    {Absent, JsonFile(EmptyDict), JsonFile(("a" :> Scalar(1))),
     JsonFile(("a" :> Dict(("x" :> Scalar(1)))))}

InitConfigs ==
    /\ tabs = [c \in Channels |-> InitTab]
    /\ fret = InitFret
    /\ widgets = DefaultSettings
    /\ files = [path \in 1..MaxImages |-> ImageFile(path)]
    /\ table = <<>>
    /\ trace = <<>>
    /\ call = None
    /\ seg = InitSeg
    /\ config \in {NewConfigManager(file) : file \in SavedFiles}

NextConfig ==
    \/ \E key \in ConfigKeys, value \in ConfigValues : ConfigSet(key, value)
    \/ \E key \in ConfigKeys : ConfigDelete(key)
    \/ \E key \in ConfigKeys : ConfigGet(key)
    \/ \E key \in ConfigKeys : ConfigContains(key)
    \/ ConfigClear
    \/ ConfigReload
    \/ \E mkdir_ok \in BOOLEAN, outcomes \in [1..MaxAttempts -> AttemptOutcomes] :
          ConfigSync(mkdir_ok, outcomes)

SpecConfig == InitConfigs /\ [][NextConfig]_vars

\* the configuration a manager reads from the file: _load reads no file as
\* the empty configuration
FileData(file) == IF file = Absent THEN EmptyDict ELSE Decode(file[2], <<>>)

\* the step is a call of sync
SyncReturns(value) == config'.last[1] = "sync" /\ config'.last[2] = value

\* C28: a sync that fails leaves the previously saved file with its previous
\* content, returns False after at most 3 attempts and leaves the data and
\* the dirty flag (true) unchanged; sync returns True only when the file
\* holds the in-memory data and the dirty flag is false.
C28_SyncIsAtomic ==
    [][/\ SyncReturns(FALSE) =>
            /\ config'.file = config.file
            /\ config'.last[3] <= MaxAttempts
            /\ config'.data = config.data
            /\ config'.dirty
       /\ SyncReturns(TRUE) =>
            /\ FileData(config'.file) = config'.data
            /\ ~config'.dirty]_vars

\* the step is a call of get or of __contains__
ReadOnlyCall == config'.last[1] \in {"get", "contains"}

\* C29: whenever the in-memory configuration differs from the content of the
\* configuration file the dirty flag is true, and get and __contains__ change
\* neither the data nor the dirty flag.
C29_UnsavedChangesAreDirty ==
    /\ [](FileData(config.file) # config.data => config.dirty)
    /\ [][ReadOnlyCall => /\ config'.data = config.data
                          /\ config'.dirty = config.dirty]_vars

\* a set through "a.x" has replaced the scalar the file holds under "a" by a
\* dict, and the manager is dirty
C29_Witness ==
    /\ config.last = <<"set">>
    /\ config.file = JsonFile(("a" :> Scalar(1)))
    /\ config.data = ("a" :> Dict(("x" :> Scalar(2))))
    /\ config.dirty

====
